---------------------------- MODULE Spec2Model ----------------------------
(***************************************************************************)
(* State-machine model of the stateful core of absfs/fusefs:               *)
(*   - LockManager    (locks.go)   whole-file and byte-range locks         *)
(*   - HandleTracker  (handles.go) open-handle table                       *)
(*   - InodeManager   (inode.go)   path <-> identity table                 *)
(*   - lruCache       (cache.go)   LRU cache with TTL                      *)
(* Every method of these types runs inside one critical section of its     *)
(* component's mutex, so a method is one atomic action; ReleaseOwner is    *)
(* split at the boundary between its two loops, with the mutex modelled    *)
(* explicitly, so that its atomicity is something the model decides.       *)
(***************************************************************************)
EXTENDS Integers, Sequences, FiniteSets, TLC

VARIABLES
    flocks,       \* LockManager.flocks: path -> [lockType, owners]
    posixLocks,   \* LockManager.posixLocks: path -> sequence of posixLock
    lmMu,         \* LockManager.mu: {} when free, else the owners whose calls hold it
    lmRet,        \* errno returned by the last LockManager call
    handles,      \* HandleTracker.handles: handle id -> handleEntry
    nextHandle,   \* HandleTracker.nextHandle
    closes,       \* per resource passed to Add, the number of Close calls made on it
    issued,       \* the identifiers Add has returned so far
    htCall,       \* the last HandleTracker call: its name and handle argument
    htRet,        \* what that call returned (handle id, errno, resource or count)
    now,          \* the clock time.Now() reads
    cache,        \* one lruCache: maxSize, ttl, items, lruList, hits, misses, evictions
    cacheCall,    \* the last lruCache call: its name, key and the return it took
    cacheRet,     \* what Get returned: (value, ok)
    touchOrder,   \* the keys present, most recently touched first
    putAt,        \* per key present, the time of its last Put
    pathToInode,  \* InodeManager.pathToInode
    inodeToPath,  \* InodeManager.inodeToPath
    inodeToMeta,  \* InodeManager.inodeToMeta: identity -> (modTime, size)
    nextInode,    \* InodeManager.nextInode
    attrCache,    \* InodeManager.attrCache
    dirCache,     \* InodeManager.dirCache
    imCall,       \* the last InodeManager call: its name and path
    imRet,        \* what that call returned: an identity or a cached value
    allocated,    \* the identities GetInode has returned so far
    lastIno,      \* per path, the identity its most recent GetInode returned
    clearedMeta,  \* between a Clear and the next GetInode: per path known at
                  \* the Clear, the (modTime, size) it had then
    sameAsCleared, \* whether the last GetInode gave such a path that (modTime, size)
    flockCalls,   \* per (path, owner) of the concurrent callers of Flock: where
                  \* its call is and the errno it returned
    lockedVia,    \* the locks granted to calls made through an open file handle:
                  \* (handle, path, owner, kind) of each
    lmCalls,      \* per caller of the lock manager: its call, where the call is
                  \* (idle, called, locked) and the errno of its last return
    imMu,         \* InodeManager.pathMu, .metaMu and the mu of its two caches:
                  \* per mutex, the threads holding it
    imCalls,      \* per thread calling the InodeManager: its call and the
                  \* statements of it still to run
    absFS,        \* FuseFS.absFS, the backing file system: path -> size
    nodeRet,      \* the last fuseNode call: its name, path, errno and attributes
    unmounting,   \* FuseFS.unmounting
    fsCalls       \* per thread calling the adapter: its call, where the call
                  \* is, and the resource it took from the handle table

lockVars == <<flocks, posixLocks, lmMu, lmRet>>

handleVars == <<handles, nextHandle, closes, issued, htCall, htRet>>

cacheVars == <<cache, cacheCall, cacheRet, touchOrder, putAt>>

inodeVars == <<pathToInode, inodeToPath, inodeToMeta, nextInode, attrCache,
               dirCache, imCall, imRet, allocated, lastIno, clearedMeta,
                   sameAsCleared>>

adapterVars == <<imMu, imCalls, absFS, nodeRet, unmounting, fsCalls>>

vars == <<flocks, posixLocks, lmMu, lmRet,
          handles, nextHandle, closes, issued, htCall, htRet,
          now, cache, cacheCall, cacheRet, touchOrder, putAt,
          pathToInode, inodeToPath, inodeToMeta, nextInode, attrCache,
          dirCache, imCall, imRet, allocated, lastIno, clearedMeta,
          sameAsCleared, flockCalls, lockedVia, lmCalls, adapterVars>>

\* what a method of one component leaves alone: the other components and
\* the clock
notLockVars == <<handleVars, cacheVars, inodeVars, now, flockCalls,
                   lockedVia, lmCalls, adapterVars>>
notHandleVars == <<lockVars, cacheVars, inodeVars, now, flockCalls,
                   lockedVia, lmCalls, adapterVars>>
notCacheVars == <<lockVars, handleVars, inodeVars, now, flockCalls,
                   lockedVia, lmCalls, adapterVars>>
notInodeVars == <<lockVars, handleVars, cacheVars, now, flockCalls,
                   lockedVia, lmCalls, adapterVars>>

----------------------------------------------------------------------------
(* Maps (Go map[K]V) as functions with a finite domain.                    *)

EmptyMap == <<>>

MapPut(m, k, v) == [x \in (DOMAIN m) \cup {k} |-> IF x = k THEN v ELSE m[x]]

MapDelete(m, k) == [x \in (DOMAIN m) \ {k} |-> m[x]]

----------------------------------------------------------------------------
(* syscall constants used by locks.go and handles.go (linux values).       *)

LOCK_SH == 1
LOCK_EX == 2
LOCK_NB == 4
LOCK_UN == 8

F_RDLCK == 0
F_WRLCK == 1
F_UNLCK == 2

OK == 0
EBADF == 9
EAGAIN == 11
\* syscall.EWOULDBLOCK is declared as the same errno as syscall.EAGAIN
EWOULDBLOCK == EAGAIN

----------------------------------------------------------------------------
(* Bounds of the model.                                                    *)

\* a read/write Setlk is only granted while fewer ranges than this are recorded
MaxLocks == 3

Paths == {"x", "y"}
Owners == {1, 2, 3}
\* LockManager.mu is held by nobody
NoHolder == {}

\* the whole-file sentinel end 0xFFFFFFFFFFFFFFFF, scaled to the model's offsets
WholeFileEnd == 3
Offsets == 0 .. WholeFileEnd

\* flags is a bit set over LOCK_SH | LOCK_EX | LOCK_NB | LOCK_UN
FlockFlags == 0 .. 15

HasFlag(flags, bit) == (flags \div bit) % 2 = 1

----------------------------------------------------------------------------
(* LockManager: whole-file locks                                           *)

NewLockManager ==
    /\ flocks = EmptyMap
    /\ posixLocks = EmptyMap
    /\ lmMu = NoHolder
    /\ lmRet = OK

\* conflict paths that return success
flockConflictSilent(flags) == OK

\* the errno of every conflict path of Flock
flockConflict(flags) ==
    IF HasFlag(flags, LOCK_NB) THEN EWOULDBLOCK ELSE EAGAIN

\* (mutation: the record is dropped whoever else holds it)
dropRecord(fl, path, owner) == MapDelete(fl, path)

\* the owner set after `delete(state.owners, owner)`, the record dropped when empty
dropOwner(fl, path, owner) ==
    LET left == fl[path].owners \ {owner}
    IN  IF left = {} THEN MapDelete(fl, path)
        ELSE [fl EXCEPT ![path].owners = left]

\* an unlock that leaves the record in place when its last owner goes
flockUnlockKeepsRecord(fl, path, owner) ==
    IF path \notin DOMAIN fl THEN [flocks |-> fl, errno |-> OK]
    ELSE [flocks |-> [fl EXCEPT ![path].owners = @ \ {owner}], errno |-> OK]

flockUnlock(fl, path, owner) ==
    IF path \notin DOMAIN fl THEN [flocks |-> fl, errno |-> OK]
    ELSE [flocks |-> dropOwner(fl, path, owner), errno |-> OK]

\* `len(state.owners) == 1`, the test that allows a shared holder to upgrade
soleOwnerAlways(state) == TRUE

soleOwner(state) == Cardinality(state.owners) = 1

\* a mode change that is not written to the record
keepMode(fl, path, mode) == fl

\* `state.lockType = mode`
setMode(fl, path, mode) == [fl EXCEPT ![path].lockType = mode]

\* a join that leaves the requester as the only holder
replaceOwners(fl, path, owner) == [fl EXCEPT ![path].owners = {owner}]

\* `state.owners[owner] = true`
addOwner(fl, path, owner) == [fl EXCEPT ![path].owners = @ \cup {owner}]

\* the lock/upgrade/downgrade half of Flock, after the LOCK_UN test
flockAcquire(fl, path, owner, flags) ==
    LET requestedType == IF HasFlag(flags, LOCK_EX) THEN LOCK_EX ELSE LOCK_SH
    IN  IF path \notin DOMAIN fl
        THEN [flocks |-> MapPut(fl, path, [lockType |-> requestedType, owners |-> {owner}]),
              errno |-> OK]
        ELSE LET state == fl[path]
             IN  IF owner \in state.owners
                 THEN IF requestedType = state.lockType
                      THEN [flocks |-> fl, errno |-> OK]
                      ELSE IF requestedType = LOCK_EX /\ state.lockType = LOCK_SH
                      THEN IF soleOwner(state)
                           THEN [flocks |-> setMode(fl, path, LOCK_EX), errno |-> OK]
                           ELSE [flocks |-> fl, errno |-> flockConflict(flags)]
                      ELSE IF requestedType = LOCK_SH /\ state.lockType = LOCK_EX
                      THEN [flocks |-> setMode(fl, path, LOCK_SH), errno |-> OK]
                      ELSE [flocks |-> fl, errno |-> OK]
                 ELSE IF state.lockType = LOCK_EX
                      THEN [flocks |-> fl, errno |-> flockConflict(flags)]
                      ELSE IF requestedType = LOCK_SH
                      THEN [flocks |-> addOwner(fl, path, owner), errno |-> OK]
                      ELSE [flocks |-> fl, errno |-> flockConflict(flags)]

\* a Flock that looks at LOCK_SH and LOCK_EX before it looks at LOCK_UN
FlockResultModeFirst(fl, path, owner, flags) ==
    IF HasFlag(flags, LOCK_SH) \/ HasFlag(flags, LOCK_EX)
    THEN flockAcquire(fl, path, owner, flags)
    ELSE IF HasFlag(flags, LOCK_UN) THEN flockUnlock(fl, path, owner)
    ELSE flockAcquire(fl, path, owner, flags)

FlockResult(fl, path, owner, flags) ==
    IF HasFlag(flags, LOCK_UN) THEN flockUnlock(fl, path, owner)
    ELSE flockAcquire(fl, path, owner, flags)

Flock(path, owner, flags) ==
    /\ lmMu = NoHolder
    /\ \E r \in {FlockResult(flocks, path, owner, flags)} :
           /\ flocks' = r.flocks
           /\ lmRet' = r.errno
    /\ UNCHANGED <<posixLocks, lmMu>>
    /\ UNCHANGED notLockVars

----------------------------------------------------------------------------
(* LockManager: byte-range locks                                           *)

\* `if end == 0xFFFFFFFFFFFFFFFF { end = ^uint64(0) }`
wholeFile(end) == IF end = WholeFileEnd THEN WholeFileEnd ELSE end

rangesOverlap(start1, end1, start2, end2) ==
    start1 < wholeFile(end2) /\ start2 < wholeFile(end1)

\* (mutation: only a write request conflicts)
conflictsWriterOnly(lock, owner, lk) ==
    /\ lock.owner # owner
    /\ lk.Start < lock.end /\ lock.start < lk.End
    /\ lk.Typ = F_WRLCK

\* a test under which ranges that only touch also overlap
conflictsTouching(lock, owner, lk) ==
    /\ lock.owner # owner
    /\ lk.Start <= lock.end /\ lock.start <= lk.End
    /\ (lk.Typ = F_WRLCK \/ lock.typ = F_WRLCK)

\* the test both Getlk and Setlk make on one recorded lock of the list
conflicts(lock, owner, lk) ==
    /\ lock.owner # owner
    /\ rangesOverlap(lk.Start, lk.End, lock.start, lock.end)
    /\ (lk.Typ = F_WRLCK \/ lock.typ = F_WRLCK)

locksOf(pl, path) == IF path \in DOMAIN pl THEN pl[path] ELSE <<>>

\* a loop body that drops every range of the owner the unlock overlaps
unlockOneWhole(lock, owner, lk) ==
    IF lock.owner # owner THEN <<lock>>
    ELSE IF ~rangesOverlap(lk.Start, lk.End, lock.start, lock.end) THEN <<lock>>
    ELSE <<>>

\* the body of unlockPosix's loop, for one recorded lock
unlockOne(lock, owner, lk) ==
    IF lock.owner # owner THEN <<lock>>
    ELSE IF ~rangesOverlap(lk.Start, lk.End, lock.start, lock.end) THEN <<lock>>
    ELSE (IF lock.start < lk.Start
            THEN <<[owner |-> lock.owner, start |-> lock.start, end |-> lk.Start,
                    typ |-> lock.typ, pid |-> lock.pid]>>
            ELSE <<>>)
         \o
         (IF lock.end > lk.End
            THEN <<[owner |-> lock.owner, start |-> lk.End, end |-> lock.end,
                    typ |-> lock.typ, pid |-> lock.pid]>>
            ELSE <<>>)

RECURSIVE unlockScan(_, _, _)
unlockScan(locks, owner, lk) ==
    IF locks = <<>> THEN <<>>
    ELSE unlockOne(Head(locks), owner, lk) \o unlockScan(Tail(locks), owner, lk)

\* a store that keeps the path with whatever list is left
storeLocksAlways(pl, path, newLocks) == MapPut(pl, path, newLocks)

\* `if len(newLocks) == 0 { delete(m, path) } else { m[path] = newLocks }`
storeLocks(pl, path, newLocks) ==
    IF newLocks = <<>> THEN MapDelete(pl, path) ELSE MapPut(pl, path, newLocks)

unlockPosix(pl, path, owner, lk) ==
    IF path \notin DOMAIN pl THEN [posixLocks |-> pl, errno |-> OK]
    ELSE [posixLocks |-> storeLocks(pl, path, unlockScan(pl[path], owner, lk)),
          errno |-> OK]

\* an acquisition that appends the lock before it reports the conflict
setlkAcquireAppendsFirst(pl, path, owner, lk) ==
    LET locks == locksOf(pl, path)
        added == MapPut(pl, path,
                        Append(locks, [owner |-> owner, start |-> lk.Start,
                                       end |-> lk.End, typ |-> lk.Typ,
                                       pid |-> lk.Pid]))
    IN  IF \E i \in 1 .. Len(locks) : conflicts(locks[i], owner, lk)
        THEN [posixLocks |-> added, errno |-> EAGAIN]
        ELSE [posixLocks |-> added, errno |-> OK]

\* an acquisition that replaces the range the owner holds over the same
\* bytes instead of adding one
setlkAcquireReplaces(pl, path, owner, lk) ==
    LET locks == locksOf(pl, path)
        new == [owner |-> owner, start |-> lk.Start, end |-> lk.End,
                typ |-> lk.Typ, pid |-> lk.Pid]
        same(i) == /\ locks[i].owner = owner
                   /\ locks[i].start = lk.Start
                   /\ locks[i].end = lk.End
    IN  IF \E i \in 1 .. Len(locks) : conflicts(locks[i], owner, lk)
        THEN [posixLocks |-> pl, errno |-> EAGAIN]
        ELSE IF \E i \in 1 .. Len(locks) : same(i)
        THEN [posixLocks |->
                  MapPut(pl, path,
                         [i \in 1 .. Len(locks) |->
                             IF same(i) THEN new ELSE locks[i]]),
              errno |-> OK]
        ELSE [posixLocks |-> MapPut(pl, path, Append(locks, new)),
              errno |-> OK]

\* the lock half of Setlk, after the F_UNLCK test
setlkAcquire(pl, path, owner, lk) ==
    LET locks == locksOf(pl, path)
    IN  IF \E i \in 1 .. Len(locks) : conflicts(locks[i], owner, lk)
        THEN [posixLocks |-> pl, errno |-> EAGAIN]
        ELSE [posixLocks |->
                  MapPut(pl, path,
                         Append(locks, [owner |-> owner, start |-> lk.Start,
                                        end |-> lk.End, typ |-> lk.Typ,
                                        pid |-> lk.Pid])),
              errno |-> OK]

SetlkResult(pl, path, owner, lk) ==
    IF lk.Typ = F_UNLCK THEN unlockPosix(pl, path, owner, lk)
    ELSE setlkAcquire(pl, path, owner, lk)

\* number of byte ranges recorded over all paths
PosixCount == LET RECURSIVE Sum(_)
                  Sum(S) == IF S = {} THEN 0
                            ELSE LET p == CHOOSE q \in S : TRUE
                                 IN  Len(posixLocks[p]) + Sum(S \ {p})
              IN  Sum(DOMAIN posixLocks)

Setlk(path, owner, lk) ==
    /\ lmMu = NoHolder
    /\ \E r \in {SetlkResult(posixLocks, path, owner, lk)} :
           /\ (lk.Typ # F_UNLCK /\ r.errno = OK) => PosixCount < MaxLocks
           /\ posixLocks' = r.posixLocks
           /\ lmRet' = r.errno
    /\ UNCHANGED <<flocks, lmMu>>
    /\ UNCHANGED notLockVars

\* a Setlkw that does not return while the request conflicts
SetlkwWaits(path, owner, lk) ==
    /\ SetlkResult(posixLocks, path, owner, lk).errno # EAGAIN
    /\ Setlk(path, owner, lk)

\* Setlkw only calls Setlk
Setlkw(path, owner, lk) ==
    /\ Setlk(path, owner, lk)

\* Getlk fills the caller's *fuse.FileLock (GetlkResult) and returns 0; the
\* buffer belongs to the caller, so only the errno is recorded in the state.
\* a scan that does not skip the caller's own locks
firstConflictAnyOwner(locks, owner, lk) ==
    LET hits == {i \in 1 .. Len(locks) :
                    /\ rangesOverlap(lk.Start, lk.End, locks[i].start, locks[i].end)
                    /\ (lk.Typ = F_WRLCK \/ locks[i].typ = F_WRLCK)}
    IN  IF hits = {} THEN 0 ELSE CHOOSE i \in hits : \A j \in hits : i <= j

\* the first recorded lock that conflicts, in list order; 0 when none does
firstConflict(locks, owner, lk) ==
    LET hits == {i \in 1 .. Len(locks) : conflicts(locks[i], owner, lk)}
    IN  IF hits = {} THEN 0 ELSE CHOOSE i \in hits : \A j \in hits : i <= j

\* a report that overwrites the mode of the candidate and nothing else
GetlkResultModeOnly(pl, path, owner, lk) ==
    LET locks == locksOf(pl, path)
        i == firstConflict(locks, owner, lk)
    IN  IF i = 0 THEN [lk EXCEPT !.Typ = F_UNLCK]
        ELSE [lk EXCEPT !.Typ = locks[i].typ]

GetlkResult(pl, path, owner, lk) ==
    LET locks == locksOf(pl, path)
        i == firstConflict(locks, owner, lk)
    IN  IF i = 0 THEN [lk EXCEPT !.Typ = F_UNLCK]
        ELSE [Typ |-> locks[i].typ, Start |-> locks[i].start,
              End |-> locks[i].end, Pid |-> locks[i].pid]

Getlk(path, owner, lk) ==
    /\ lmMu = NoHolder
    /\ GetlkResult(posixLocks, path, owner, lk).Typ \in {F_RDLCK, F_WRLCK, F_UNLCK}
    /\ lmRet' = OK
    /\ UNCHANGED <<flocks, posixLocks, lmMu>>
    /\ UNCHANGED notLockVars

----------------------------------------------------------------------------
(* LockManager.ReleaseOwner: lm.mu.Lock(), the loop over lm.flocks, the    *)
(* loop over lm.posixLocks, lm.mu.Unlock().                                *)

RECURSIVE releaseFlocks(_, _, _)
releaseFlocks(fl, todo, owner) ==
    IF todo = {} THEN fl
    ELSE LET p == CHOOSE q \in todo : TRUE
         IN  releaseFlocks(dropOwner(fl, p, owner), todo \ {p}, owner)

RECURSIVE notOwnedBy(_, _)
notOwnedBy(locks, owner) ==
    IF locks = <<>> THEN <<>>
    ELSE (IF Head(locks).owner # owner THEN <<Head(locks)>> ELSE <<>>)
         \o notOwnedBy(Tail(locks), owner)

RECURSIVE releasePosix(_, _, _)
releasePosix(pl, todo, owner) ==
    IF todo = {} THEN pl
    ELSE LET p == CHOOSE q \in todo : TRUE
         IN  releasePosix(storeLocks(pl, p, notOwnedBy(pl[p], owner)),
                          todo \ {p}, owner)

\* lm.mu.Lock() and the first loop
ReleaseOwnerFlocks(owner) ==
    /\ lmMu = NoHolder
    /\ lmMu' = {owner}
    /\ flocks' = releaseFlocks(flocks, DOMAIN flocks, owner)
    /\ UNCHANGED <<posixLocks, lmRet>>
    /\ UNCHANGED notLockVars

\* the second loop and the deferred lm.mu.Unlock()
ReleaseOwnerPosix(owner) ==
    /\ lmMu = {owner}
    /\ posixLocks' = releasePosix(posixLocks, DOMAIN posixLocks, owner)
    /\ lmMu' = NoHolder
    /\ UNCHANGED <<flocks, lmRet>>
    /\ UNCHANGED notLockVars

ReleaseOwner(owner) == ReleaseOwnerFlocks(owner) \/ ReleaseOwnerPosix(owner)

----------------------------------------------------------------------------
(* mapError (errors.go): an error value is [kind, errno]; kind names the   *)
(* sentinel errors.Is finds in the chain, "Errno" a syscall.Errno found by *)
(* errors.As, "other" anything else.                                       *)

ENOENT == 2
EIO == 5
EACCES == 13
EEXIST == 17
EINVAL == 22
ENOSPC == 28

NilError == [kind |-> "nil", errno |-> 0]
Err(kind) == [kind |-> kind, errno |-> 0]
ErrnoError(n) == [kind |-> "Errno", errno |-> n]

mapError(err) ==
    CASE err.kind = "nil" -> OK
      [] err.kind = "ErrNotExist" -> ENOENT
      [] err.kind = "ErrExist" -> EEXIST
      [] err.kind = "ErrPermission" -> EACCES
      [] err.kind = "ErrClosed" -> EBADF
      [] err.kind = "ErrInvalid" -> EINVAL
      [] err.kind = "EOF" -> OK
      [] err.kind = "Errno" -> err.errno
      [] OTHER -> EIO

----------------------------------------------------------------------------
(* HandleTracker (handles.go). Every method runs under ht.mu.              *)

\* the resources the protocol layer opens, each passed to Add at most once
MaxFiles == 3
Files == 1 .. MaxFiles

\* handle identifiers a caller may present, issued or not
HandleIds == 0 .. MaxFiles + 1

\* nil, as returned by Get for an unknown handle
NoFile == 0

\* the flags of the open call (O_RDWR); the tracker only stores them
OpenFlags == {2}

\* what file.Close() may return
CloseErrs == {NilError, Err("ErrPermission"), Err("ErrClosed"), Err("EOF"),
              ErrnoError(ENOSPC), Err("other")}

NewHandleTracker ==
    /\ handles = EmptyMap
    /\ nextHandle = 0
    /\ closes = [f \in Files |-> 0]
    /\ issued = {}
    /\ htCall = [op |-> "New", fh |-> 0]
    /\ htRet = 0

\* (mutation: a counter two bits wide)
allocHandleNarrow(n) == (n + 1) % 2

\* `ht.nextHandle.Add(1)`
allocHandle(n) == n + 1

Add(file, flags, path) ==
    /\ closes[file] = 0
    /\ \A h \in DOMAIN handles : handles[h].file # file
    /\ nextHandle < MaxFiles
    /\ \E fh \in {allocHandle(nextHandle)} :
          /\ nextHandle' = fh
          /\ handles' = MapPut(handles, fh, [file |-> file, refCount |-> 1,
                                             flags |-> flags, path |-> path])
          /\ issued' = issued \cup {fh}
          /\ htCall' = [op |-> "Add", fh |-> fh]
          /\ htRet' = fh
    /\ UNCHANGED closes
    /\ UNCHANGED notHandleVars

GetResult(table, fh) ==
    IF fh \notin DOMAIN table THEN NoFile ELSE table[fh].file

Get(fh) ==
    /\ htCall' = [op |-> "Get", fh |-> fh]
    /\ htRet' = GetResult(handles, fh)
    /\ UNCHANGED <<handles, nextHandle, closes, issued>>
    /\ UNCHANGED notHandleVars

\* (mutation: the record is kept after the close)
keepRecord(table, fh) == table

\* `delete(ht.handles, fh)`
removeRecord(table, fh) == MapDelete(table, fh)

\* `if entry.refCount <= 0`
closedAt(count) == count <= 0

\* (mutation: the close error is discarded, as CloseAll discards it)
closeErrorDiscarded(err) == OK

\* `if err != nil { return mapError(err) }` and the final `return 0`
closeError(err) == IF err.kind # "nil" THEN mapError(err) ELSE OK

\* Release, with err the value file.Close() returns if it is called
Release(fh, err) ==
    /\ htCall' = [op |-> "Release", fh |-> fh]
    /\ IF fh \notin DOMAIN handles
         THEN /\ htRet' = EBADF
              /\ UNCHANGED <<handles, closes>>
         ELSE LET entry == handles[fh]
                  count == entry.refCount - 1
              IN  IF closedAt(count)
                  THEN /\ closes' = [closes EXCEPT ![entry.file] = @ + 1]
                       /\ handles' = removeRecord(handles, fh)
                       /\ htRet' = closeError(err)
                  ELSE /\ handles' = [handles EXCEPT ![fh].refCount = count]
                       /\ htRet' = OK
                       /\ UNCHANGED closes
    /\ UNCHANGED <<nextHandle, issued>>
    /\ UNCHANGED notHandleVars

\* (mutation: the loop closes every resource and deletes no record)
deleteNone(table) == table

\* `delete(ht.handles, fh)` for every fh of the range loop
deleteAll(table) == [h \in (DOMAIN table) \ (DOMAIN table) |-> table[h]]

CloseAll ==
    /\ closes' = [f \in Files |->
                     IF \E h \in DOMAIN handles : handles[h].file = f
                     THEN closes[f] + 1 ELSE closes[f]]
    /\ handles' = deleteAll(handles)
    /\ htCall' = [op |-> "CloseAll", fh |-> 0]
    /\ htRet' = 0
    /\ UNCHANGED <<nextHandle, issued>>
    /\ UNCHANGED notHandleVars

Count ==
    /\ htCall' = [op |-> "Count", fh |-> 0]
    /\ htRet' = Cardinality(DOMAIN handles)
    /\ UNCHANGED <<handles, nextHandle, closes, issued>>
    /\ UNCHANGED notHandleVars

----------------------------------------------------------------------------
(* lruCache (cache.go).  lruList is the list from front (most recently     *)
(* used) to back; items is the key set of the map, each key pointing at    *)
(* the list element that carries it.  Every method holds c.mu throughout.  *)

\* the clock may advance up to this time
MaxTime == 2

\* a cache is only asked Get while its hits and misses sum to less than this
MaxLookups == 2

\* a Put only evicts while the eviction counter is below this
MaxEvictions == 1

Keys == {"a", "b", "c"}

Values == {"v1", "v2"}

NoValue == "nil"

NoKey == ""

newLRUCache(maxSize, ttl) ==
    [maxSize |-> maxSize, ttl |-> ttl, items |-> {}, lruList |-> <<>>,
     hits |-> 0, misses |-> 0, evictions |-> 0]

\* c.items[key]: the position in the list of the element held for key
elemOf(c, key) == CHOOSE i \in 1 .. Len(c.lruList) : c.lruList[i].key = key

\* list.Remove
listRemove(l, i) == SubSeq(l, 1, i - 1) \o SubSeq(l, i + 1, Len(l))

\* a list whose elements stay where they are
leaveInPlace(l, i) == l

\* list.MoveToFront
MoveToFront(l, i) == <<l[i]>> \o listRemove(l, i)

\* list.PushFront
PushFront(l, entry) == <<entry>> \o l

\* list.Back
Back(l) == Len(l)

remove(c, key, elem) ==
    [c EXCEPT !.lruList = listRemove(@, elem), !.items = @ \ {key}]

\* an eviction that takes an expired entry, when there is one, before the
\* least recently used one
evictExpiredFirst(c) ==
    LET old == {i \in 1 .. Len(c.lruList) :
                   c.ttl > 0 /\ now - c.lruList[i].timestamp > c.ttl}
        elem == IF old = {} THEN Back(c.lruList)
                ELSE CHOOSE i \in old : \A j \in old : i >= j
    IN  IF c.lruList = <<>>
        THEN c
        ELSE [c EXCEPT !.lruList = SubSeq(@, 1, elem - 1)
                                      \o SubSeq(@, elem + 1, Len(@)),
                       !.items = @ \ {c.lruList[elem].key},
                       !.evictions = @ + 1]

evictOldest(c) ==
    IF c.lruList = <<>>
    THEN c
    ELSE LET elem == Back(c.lruList)
             entry == c.lruList[elem]
         IN  [remove(c, entry.key, elem) EXCEPT !.evictions = @ + 1]

\* an expiry test that also fires at exactly the time to live
expiredAtTTL(c, entry, t) == c.ttl > 0 /\ t - entry.timestamp >= c.ttl

\* c.ttl > 0 && time.Since(entry.timestamp) > c.ttl, at time t
expired(c, entry, t) == c.ttl > 0 /\ t - entry.timestamp > c.ttl

\* an expiry that is also counted as an eviction
expireAsEviction(c, key, elem) ==
    [remove(c, key, elem) EXCEPT !.misses = @ + 1, !.evictions = @ + 1]

\* `c.remove(key, elem)` and `c.misses++` of an expired entry
expireEntry(c, key, elem) == [remove(c, key, elem) EXCEPT !.misses = @ + 1]

\* Get at time t: the cache afterwards and the pair returned
lruGet(c, key, t) ==
    IF key \notin c.items
    THEN [cache |-> [c EXCEPT !.misses = @ + 1], value |-> NoValue, ok |-> FALSE]
    ELSE LET elem == elemOf(c, key)
             entry == c.lruList[elem]
         IN  IF expired(c, entry, t)
             THEN [cache |-> expireEntry(c, key, elem),
                   value |-> NoValue, ok |-> FALSE]
             ELSE [cache |-> [c EXCEPT !.lruList = MoveToFront(@, elem),
                                       !.hits = @ + 1],
                   value |-> entry.value, ok |-> TRUE]

\* a capacity test that lets the list grow one past maxSize
overCapacityByTwo(c) == c.maxSize > 0 /\ Len(c.lruList) > c.maxSize + 1

\* c.maxSize > 0 && c.lruList.Len() > c.maxSize
overCapacity(c) == c.maxSize > 0 /\ Len(c.lruList) > c.maxSize

\* an update that keeps the timestamp of the first Put
updateValueOnly(entry, value, t) == [entry EXCEPT !.value = value]

\* `entry.value = value` and `entry.timestamp = time.Now()`
updateEntry(entry, value, t) == [entry EXCEPT !.value = value, !.timestamp = t]

\* Put at time t
lruPut(c, key, value, t) ==
    IF key \in c.items
    THEN LET elem == elemOf(c, key)
             entry == updateEntry(c.lruList[elem], value, t)
         IN  [c EXCEPT !.lruList = MoveToFront([@ EXCEPT ![elem] = entry], elem)]
    ELSE LET entry == [key |-> key, value |-> value, timestamp |-> t]
             added == [c EXCEPT !.lruList = PushFront(@, entry),
                                !.items = @ \cup {key}]
         IN  IF overCapacity(added) THEN evictOldest(added) ELSE added

\* a Delete that removes the entry at the back, as an eviction does
lruDeleteOldest(c, key) ==
    IF key \in c.items THEN evictOldest(c) ELSE c

lruDelete(c, key) ==
    IF key \in c.items THEN remove(c, key, elemOf(c, key)) ELSE c

lruClear(c) == [c EXCEPT !.items = {}, !.lruList = <<>>]

lruLen(c) == Len(c.lruList)

\* Stats; HitRate is the quotient num/den of float64(c.hits) by
\* float64(total), float64(0) being 0/1
lruStats(c) ==
    LET total == c.hits + c.misses
    IN  [Size |-> Len(c.lruList), MaxSize |-> c.maxSize, Hits |-> c.hits,
         Misses |-> c.misses, Evictions |-> c.evictions,
         HitRate |-> IF total > 0 THEN [num |-> c.hits, den |-> total]
                     ELSE [num |-> 0, den |-> 1]]

\* the keys of a sequence that are still present, in the same order
StillPresent(order, items) ==
    LET Keep(k) == k \in items IN SelectSeq(order, Keep)

\* a sequence of keys after key was touched
Touched(order, key) ==
    LET Other(k) == k # key IN <<key>> \o SelectSeq(order, Other)

\* a map restricted to the keys still present
Restrict(m, items) == [k \in (DOMAIN m) \cap items |-> m[k]]

\* a cache is constructed with the given capacity and time to live
NewLRUCache(maxSize, ttl) ==
    /\ cache' = newLRUCache(maxSize, ttl)
    /\ cacheCall' = [op |-> "New", key |-> NoKey, branch |-> "new"]
    /\ cacheRet' = [value |-> NoValue, ok |-> FALSE]
    /\ touchOrder' = <<>>
    /\ putAt' = EmptyMap
    /\ UNCHANGED notCacheVars

CacheGet(key) ==
    /\ cache.hits + cache.misses < MaxLookups
    /\ \E r \in {lruGet(cache, key, now)} :
          /\ cache' = r.cache
          /\ cacheRet' = [value |-> r.value, ok |-> r.ok]
          /\ cacheCall' = [op |-> "Get", key |-> key,
                           branch |-> IF r.ok THEN "hit"
                                      ELSE IF key \in cache.items THEN "expired"
                                      ELSE "absent"]
          /\ touchOrder' = StillPresent(IF r.ok THEN Touched(touchOrder, key)
                                        ELSE touchOrder, r.cache.items)
          /\ putAt' = Restrict(putAt, r.cache.items)
    /\ UNCHANGED notCacheVars

CachePut(key, value) ==
    /\ \E c \in {lruPut(cache, key, value, now)} :
          /\ c.evictions > cache.evictions => cache.evictions < MaxEvictions
          /\ cache' = c
          /\ cacheCall' = [op |-> "Put", key |-> key,
                           branch |-> IF key \in cache.items THEN "update"
                                      ELSE "insert"]
          /\ touchOrder' = StillPresent(Touched(touchOrder, key), c.items)
          /\ putAt' = Restrict(MapPut(putAt, key, now), c.items)
    /\ UNCHANGED cacheRet
    /\ UNCHANGED notCacheVars

CacheDelete(key) ==
    /\ \E c \in {lruDelete(cache, key)} :
          /\ cache' = c
          /\ touchOrder' = StillPresent(touchOrder, c.items)
          /\ putAt' = Restrict(putAt, c.items)
    /\ cacheCall' = [op |-> "Delete", key |-> key, branch |-> "delete"]
    /\ UNCHANGED cacheRet
    /\ UNCHANGED notCacheVars

CacheClear ==
    /\ \E c \in {lruClear(cache)} :
          /\ cache' = c
          /\ touchOrder' = StillPresent(touchOrder, c.items)
          /\ putAt' = Restrict(putAt, c.items)
    /\ cacheCall' = [op |-> "Clear", key |-> NoKey, branch |-> "clear"]
    /\ UNCHANGED cacheRet
    /\ UNCHANGED notCacheVars

\* time passes
Tick ==
    /\ now < MaxTime
    /\ now' = now + 1
    /\ UNCHANGED <<lockVars, handleVars, cacheVars, inodeVars, flockCalls,
                   lockedVia, lmCalls, adapterVars>>

----------------------------------------------------------------------------
(* InodeManager (inode.go).  GetInode and Clear hold pathMu throughout;    *)
(* the cache methods go straight to the attribute or directory cache.      *)

\* GetInode only allocates while nextInode is below this
MaxInode == 4

NoInode == 0

\* the manager's caches are only asked while their hits and misses sum to
\* less than this
MaxCachedLookups == 1

InodePaths == {"x", "y"}

\* os.FileInfo as far as GetInode reads it: ModTime() and Size()
ModTimes == {10, 20}

Sizes == {0, 7}

FileInfos == [modTime : ModTimes, size : Sizes]

NoInfo == [modTime |-> 0, size |-> 0]

Attrs == {"attr"}

DirLists == {"entries"}

NewInodeManager(attrCacheSize, dirCacheSize, attrTTL, dirTTL) ==
    /\ pathToInode = EmptyMap
    /\ inodeToPath = EmptyMap
    /\ nextInode = 1
    /\ attrCache = newLRUCache(attrCacheSize, attrTTL)
    /\ dirCache = newLRUCache(dirCacheSize, dirTTL)
    /\ inodeToMeta = EmptyMap
    /\ imCall = [op |-> "New", path |-> NoKey, info |-> NoInfo]
    /\ imRet = [ino |-> NoInode, value |-> NoValue]
    /\ allocated = {}
    /\ lastIno = EmptyMap
    /\ clearedMeta = EmptyMap
    /\ sameAsCleared = FALSE

\* a comparison that looks at the size alone
isSameSize(meta, ino, info) ==
    /\ ino \in DOMAIN meta
    /\ meta[ino].size = info.size

isSameFile(meta, ino, info) ==
    /\ ino \in DOMAIN meta
    /\ meta[ino].modTime = info.modTime
    /\ meta[ino].size = info.size

\* im.nextInode++
allocInode(n) == n + 1

GetInode(path, info) ==
    /\ imCall' = [op |-> "GetInode", path |-> path, info |-> info]
    /\ IF path \in DOMAIN pathToInode
          /\ isSameFile(inodeToMeta, pathToInode[path], info)
       THEN /\ imRet' = [ino |-> pathToInode[path], value |-> NoValue]
            /\ allocated' = allocated \cup {pathToInode[path]}
            /\ lastIno' = MapPut(lastIno, path, pathToInode[path])
            /\ UNCHANGED <<pathToInode, inodeToPath, inodeToMeta, nextInode>>
       ELSE /\ nextInode < MaxInode
            /\ LET changed == path \in DOMAIN pathToInode
                   paths == IF changed
                            THEN MapDelete(inodeToPath, pathToInode[path])
                            ELSE inodeToPath
                   metas == IF changed
                            THEN MapDelete(inodeToMeta, pathToInode[path])
                            ELSE inodeToMeta
                   ino == allocInode(nextInode)
               IN  /\ nextInode' = ino
                   /\ pathToInode' = MapPut(pathToInode, path, ino)
                   /\ inodeToPath' = MapPut(paths, ino, path)
                   /\ inodeToMeta' = MapPut(metas, ino,
                          [modTime |-> info.modTime, size |-> info.size])
                   /\ imRet' = [ino |-> ino, value |-> NoValue]
                   /\ allocated' = allocated \cup {ino}
                   /\ lastIno' = MapPut(lastIno, path, ino)
    /\ clearedMeta' = EmptyMap
    /\ sameAsCleared' = (path \in DOMAIN clearedMeta /\ clearedMeta[path] = info)
    /\ UNCHANGED <<attrCache, dirCache>>
    /\ UNCHANGED notInodeVars

GetCached(path) ==
    /\ attrCache.hits + attrCache.misses
         + dirCache.hits + dirCache.misses < MaxCachedLookups
    /\ \E r \in {lruGet(attrCache, path, now)} :
          /\ attrCache' = r.cache
          /\ imRet' = [ino |-> NoInode,
                       value |-> IF r.ok THEN r.value.attr ELSE NoValue]
    /\ imCall' = [op |-> "GetCached", path |-> path, info |-> NoInfo]
    /\ UNCHANGED <<pathToInode, inodeToPath, inodeToMeta, nextInode, dirCache,
                   allocated, lastIno, clearedMeta,
                   sameAsCleared>>
    /\ UNCHANGED notInodeVars

\* a Cache whose eviction also drops the identity of the evicted path
CacheEvictsIdentity(path, attr) ==
    /\ \E c \in {lruPut(attrCache, path, [attr |-> attr, timestamp |-> now], now)} :
          /\ c.evictions > attrCache.evictions =>
                 attrCache.evictions + dirCache.evictions < MaxEvictions
          /\ attrCache' = c
          /\ pathToInode' = [p \in (DOMAIN pathToInode) \ (attrCache.items \ c.items)
                                |-> pathToInode[p]]
    /\ imCall' = [op |-> "Cache", path |-> path, info |-> NoInfo]
    /\ UNCHANGED <<inodeToPath, inodeToMeta, nextInode, dirCache,
                   imRet, allocated, lastIno, clearedMeta, sameAsCleared>>
    /\ UNCHANGED notInodeVars

Cache(path, attr) ==
    /\ \E c \in {lruPut(attrCache, path, [attr |-> attr, timestamp |-> now], now)} :
          /\ c.evictions > attrCache.evictions =>
                 attrCache.evictions + dirCache.evictions < MaxEvictions
          /\ attrCache' = c
    /\ imCall' = [op |-> "Cache", path |-> path, info |-> NoInfo]
    /\ UNCHANGED <<pathToInode, inodeToPath, inodeToMeta, nextInode, dirCache,
                   imRet, allocated, lastIno, clearedMeta,
                   sameAsCleared>>
    /\ UNCHANGED notInodeVars

CacheDir(path, entries) ==
    /\ \E c \in {lruPut(dirCache, path, [entries |-> entries, timestamp |-> now], now)} :
          /\ c.evictions > dirCache.evictions =>
                 attrCache.evictions + dirCache.evictions < MaxEvictions
          /\ dirCache' = c
    /\ imCall' = [op |-> "CacheDir", path |-> path, info |-> NoInfo]
    /\ UNCHANGED <<pathToInode, inodeToPath, inodeToMeta, nextInode, attrCache,
                   imRet, allocated, lastIno, clearedMeta,
                   sameAsCleared>>
    /\ UNCHANGED notInodeVars

GetDirCache(path) ==
    /\ attrCache.hits + attrCache.misses
         + dirCache.hits + dirCache.misses < MaxCachedLookups
    /\ \E r \in {lruGet(dirCache, path, now)} :
          /\ dirCache' = r.cache
          /\ imRet' = [ino |-> NoInode,
                       value |-> IF r.ok THEN r.value.entries ELSE NoValue]
    /\ imCall' = [op |-> "GetDirCache", path |-> path, info |-> NoInfo]
    /\ UNCHANGED <<pathToInode, inodeToPath, inodeToMeta, nextInode, attrCache,
                   allocated, lastIno, clearedMeta,
                   sameAsCleared>>
    /\ UNCHANGED notInodeVars

InvalidateDir(path) ==
    /\ dirCache' = lruDelete(dirCache, path)
    /\ imCall' = [op |-> "InvalidateDir", path |-> path, info |-> NoInfo]
    /\ UNCHANGED <<pathToInode, inodeToPath, inodeToMeta, nextInode, attrCache,
                   imRet, allocated, lastIno, clearedMeta,
                   sameAsCleared>>
    /\ UNCHANGED notInodeVars

InvalidateAttr(path) ==
    /\ attrCache' = lruDelete(attrCache, path)
    /\ imCall' = [op |-> "InvalidateAttr", path |-> path, info |-> NoInfo]
    /\ UNCHANGED <<pathToInode, inodeToPath, inodeToMeta, nextInode, dirCache,
                   imRet, allocated, lastIno, clearedMeta,
                   sameAsCleared>>
    /\ UNCHANGED notInodeVars

\* a Clear that starts the counter over
counterReset(n) == 1

\* Clear replaces the maps and leaves nextInode as it is
counterAfterClear(n) == n

\* a Clear that skips the section under metaMu
keepMeta(meta) == meta

\* `im.inodeToMeta = make(map[uint64]*inodeMeta)`
clearMeta(meta) == [i \in (DOMAIN meta) \ (DOMAIN meta) |-> meta[i]]

\* a total that counts every identity allocated so far
TotalAllocated == nextInode - 1

\* Stats().TotalInodes: `len(im.pathToInode)`
TotalInodes == Cardinality(DOMAIN pathToInode)

Clear ==
    /\ pathToInode' = EmptyMap
    /\ inodeToPath' = EmptyMap
    /\ attrCache' = lruClear(attrCache)
    /\ dirCache' = lruClear(dirCache)
    /\ inodeToMeta' = clearMeta(inodeToMeta)
    /\ nextInode' = counterAfterClear(nextInode)
    /\ imCall' = [op |-> "Clear", path |-> NoKey, info |-> NoInfo]
    /\ clearedMeta' = [p \in DOMAIN pathToInode |-> inodeToMeta[pathToInode[p]]]
    /\ sameAsCleared' = FALSE
    /\ UNCHANGED <<imRet, allocated, lastIno>>
    /\ UNCHANGED notInodeVars

----------------------------------------------------------------------------
(* Requests the protocol layer can issue.                                  *)

\* one holder pid per owner (the process that opened the handle)
PidOf(owner) == 100 + owner

\* lock descriptors over the ranges [Start, End) with Start < End
LockRequests(owner) ==
    {lk \in [Typ : {F_RDLCK, F_WRLCK, F_UNLCK}, Start : Offsets, End : Offsets,
             Pid : {PidOf(owner)}] : lk.Start < lk.End}

\* the callers of the lock manager, none of which has called yet
Callers == {1, 2}

NoLock == [Typ |-> F_UNLCK, Start |-> 0, End |-> 0, Pid |-> 0]

NoCall == [pc |-> "idle", op |-> "none", path |-> NoKey, flags |-> 0,
           lk |-> NoLock, errno |-> OK]

NoCalls == [o \in Callers |-> NoCall]

\* the mutexes of the InodeManager and of its two caches, all free
ImMutexes == {"pathMu", "attrMu", "dirMu", "metaMu"}

\* a sync.RWMutex: the thread holding it for writing, the threads holding it
\* for reading
NoMutexHeld == [m \in ImMutexes |-> [w |-> {}, r |-> {}]]

\* the threads calling the InodeManager, none of which has called yet
ImThreads == {1, 2, 3}

NoImCall == [op |-> "none", path |-> NoKey, info |-> NoInfo, todo |-> <<>>]

\* the threads calling the adapter, none of which has called yet
FsThreads == {1, 2}

NoFsCall == [op |-> "none", pc |-> "idle", fh |-> 0, file |-> NoFile,
             errno |-> OK]

NoNodeRet == [op |-> "none", path |-> NoKey, errno |-> OK, attr |-> NoValue,
              cached |-> FALSE]

\* the adapter as newFuseFS constructs it, over an empty backing file system
NewAdapter ==
    /\ imMu = NoMutexHeld
    /\ imCalls = [t \in ImThreads |-> NoImCall]
    /\ absFS = EmptyMap
    /\ nodeRet = NoNodeRet
    /\ unmounting = FALSE
    /\ fsCalls = [t \in FsThreads |-> NoFsCall]

\* the managers as New constructs them, at time 0, next to a cache of its own
Init ==
    /\ NewLockManager
    /\ NewHandleTracker
    /\ NewInodeManager(1, 1, 0, 0)
    /\ now = 0
    /\ cache = newLRUCache(0, 0)
    /\ cacheCall = [op |-> "New", key |-> NoKey, branch |-> "new"]
    /\ cacheRet = [value |-> NoValue, ok |-> FALSE]
    /\ touchOrder = <<>>
    /\ putAt = EmptyMap
    /\ flockCalls = EmptyMap
    /\ lockedVia = {}
    /\ lmCalls = NoCalls
    /\ NewAdapter

NextFlock ==
    \/ \E p \in Paths, o \in Owners, f \in FlockFlags : Flock(p, o, f)
    \/ \E o \in Owners : ReleaseOwner(o)

SpecFlock == Init /\ [][NextFlock]_vars

PosixOwners == {1, 2}

\* the byte-range table alone, on one path
PosixPaths == {"x"}

\* lock requests over the whole file, its middle and its first two bytes;
\* unlock requests over every range
PosixRequests(owner) ==
    {lk \in LockRequests(owner) :
        \/ lk.Typ = F_UNLCK
        \/ <<lk.Start, lk.End>> \in {<<0, WholeFileEnd>>, <<1, 2>>, <<0, 2>>}}

\* the descriptors over the whole file and over its middle
SomeRequests(owner) ==
    {lk \in LockRequests(owner) :
        <<lk.Start, lk.End>> \in {<<0, WholeFileEnd>>, <<1, 2>>}}

NextPosix ==
    \/ \E p \in PosixPaths, o \in PosixOwners : \E lk \in PosixRequests(o) : Setlk(p, o, lk)
    \/ \E p \in PosixPaths, o \in PosixOwners : \E lk \in SomeRequests(o) : Setlkw(p, o, lk)
    \/ \E p \in PosixPaths, o \in PosixOwners : \E lk \in SomeRequests(o) : Getlk(p, o, lk)
    \/ \E o \in PosixOwners : ReleaseOwner(o)

SpecPosix == Init /\ [][NextPosix]_vars

\* both tables together on two paths, over fewer requests
SomeFlags == {LOCK_SH, LOCK_EX, LOCK_UN}

FewRequests(owner) ==
    {lk \in LockRequests(owner) :
        /\ lk.Typ \in {F_WRLCK, F_UNLCK}
        /\ <<lk.Start, lk.End>> \in {<<0, 2>>, <<2, WholeFileEnd>>}}

NextLocks ==
    \/ \E p \in Paths, o \in PosixOwners, f \in SomeFlags : Flock(p, o, f)
    \/ \E p \in Paths, o \in PosixOwners : \E lk \in FewRequests(o) : Setlk(p, o, lk)
    \/ \E p \in Paths, o \in PosixOwners : \E lk \in FewRequests(o) : Setlkw(p, o, lk)
    \/ \E p \in Paths, o \in PosixOwners : \E lk \in FewRequests(o) : Getlk(p, o, lk)
    \/ \E o \in PosixOwners : ReleaseOwner(o)

SpecLocks == Init /\ [][NextLocks]_vars

NextHandles ==
    \/ \E f \in Files, fl \in OpenFlags, p \in Paths : Add(f, fl, p)
    \/ \E fh \in HandleIds : Get(fh)
    \/ \E fh \in HandleIds, err \in CloseErrs : Release(fh, err)
    \/ CloseAll
    \/ Count

SpecHandles == Init /\ [][NextHandles]_vars

\* a bounded cache with a time to live and an unbounded one without
CacheSizes == {0, 2}

CacheTTLs == {0, 1}

\* the first key is stored with either value, the others with the first
PutValues(key) == IF key = "a" THEN Values ELSE {"v1"}

NextCache ==
    \/ \E size \in CacheSizes, ttl \in CacheTTLs : NewLRUCache(size, ttl)
    \/ \E k \in Keys : CacheGet(k)
    \/ \E k \in Keys : \E v \in PutValues(k) : CachePut(k, v)
    \/ \E k \in Keys : CacheDelete(k)
    \/ CacheClear
    \/ Tick

SpecCache == Init /\ [][NextCache]_vars

\* the path the cache methods of the manager are called on
CachedPaths == {"x"}

NextInode ==
    \/ \E p \in InodePaths, info \in FileInfos : GetInode(p, info)
    \/ \E p \in CachedPaths : GetCached(p)
    \/ \E p \in CachedPaths, a \in Attrs : Cache(p, a)
    \/ \E p \in CachedPaths, e \in DirLists : CacheDir(p, e)
    \/ \E p \in CachedPaths : GetDirCache(p)
    \/ \E p \in CachedPaths : InvalidateDir(p)
    \/ \E p \in CachedPaths : InvalidateAttr(p)
    \/ Clear

SpecInode == Init /\ [][NextInode]_vars

----------------------------------------------------------------------------
(* Whole-file and byte-range lock properties                               *)

\* C1: on every path, a whole-file lock recorded as exclusive has exactly one
\* owner: an exclusive holder never coexists with another holder.
C1_ExclusiveHasOneOwner ==
    \A p \in DOMAIN flocks :
        flocks[p].lockType = LOCK_EX => Cardinality(flocks[p].owners) = 1

\* an exclusive lock is held on one path, a request of another owner has just
\* been refused, and two shared holders coexist on the other path
C1_Witness ==
    /\ lmRet = EWOULDBLOCK
    /\ \E p \in DOMAIN flocks : flocks[p].lockType = LOCK_EX
    /\ \E p \in DOMAIN flocks :
          flocks[p].lockType = LOCK_SH /\ Cardinality(flocks[p].owners) >= 2

\* C2: on every path, two recorded byte ranges of different owners never
\* overlap (start1 < end2 and start2 < end1) when either is write-mode.
C2_NoWriteOverlap ==
    \A p \in DOMAIN posixLocks :
        \A i, j \in 1 .. Len(posixLocks[p]) :
            LET a == posixLocks[p][i]
                b == posixLocks[p][j]
            IN  (a.owner # b.owner /\ (a.typ = F_WRLCK \/ b.typ = F_WRLCK))
                    => ~(a.start < b.end /\ b.start < a.end)

\* a write range of one owner sits in the gap a partial unlock of another
\* owner's range left, and a conflicting request has just been refused
C2_Witness ==
    /\ lmRet = EAGAIN
    /\ \E p \in DOMAIN posixLocks :
          \E i, j, k \in 1 .. Len(posixLocks[p]) :
              /\ posixLocks[p][i].owner = posixLocks[p][k].owner
              /\ posixLocks[p][i].owner # posixLocks[p][j].owner
              /\ posixLocks[p][j].typ = F_WRLCK
              /\ posixLocks[p][i].end = posixLocks[p][j].start
              /\ posixLocks[p][j].end = posixLocks[p][k].start

\* the tables of the claim C10, stated without the loops of ReleaseOwner
FlocksWithout(fl, owner) ==
    [p \in {q \in DOMAIN fl : fl[q].owners \ {owner} # {}} |->
        [lockType |-> fl[p].lockType, owners |-> fl[p].owners \ {owner}]]

NotOwner(lock, owner) == lock.owner # owner

PosixWithout(pl, owner) ==
    [p \in {q \in DOMAIN pl : \E i \in 1 .. Len(pl[q]) : pl[q][i].owner # owner} |->
        LET Keep(lock) == NotOwner(lock, owner) IN SelectSeq(pl[p], Keep)]

\* C10: ReleaseOwner(o) removes o from every whole-file owner set and removes
\* every byte range of o, leaving the other owners' memberships, the modes and
\* the other owners' ranges as they were; and while it holds the mutex between
\* the two tables, the only step taken is its own completion.
C10_ReleaseOwnerAtomicFrame ==
    [][\A o \in Owners :
          /\ (lmMu = NoHolder /\ lmMu' = {o}) =>
                 (flocks' = FlocksWithout(flocks, o) /\ posixLocks' = posixLocks)
          /\ (lmMu = {o}) =>
                 /\ lmMu' = NoHolder
                 /\ posixLocks' = PosixWithout(posixLocks, o)
                 /\ flocks' = flocks]_vars

\* a release is between its two loops: the owner still has byte ranges,
\* another owner has ranges on the same path and holds a whole-file lock
C10_Witness ==
    \E o \in Owners :
        /\ lmMu = {o}
        /\ \E p \in DOMAIN posixLocks :
              /\ \E i \in 1 .. Len(posixLocks[p]) : posixLocks[p][i].owner = o
              /\ \E i \in 1 .. Len(posixLocks[p]) : posixLocks[p][i].owner # o
        /\ \E p \in DOMAIN flocks : flocks[p].lockType = LOCK_SH

----------------------------------------------------------------------------
(* Handle tracker properties                                               *)

\* the resources held by the records of a table
LiveFiles(table) == {table[h].file : h \in DOMAIN table}

\* C3: a resource passed to Add is closed exactly once: never more than once,
\* not while its record is live, and once for every record that is gone; a
\* Release of a live handle, and CloseAll, close the resource and remove the
\* record in the same step, after which Get returns none; a Release of any
\* other identifier returns EBADF, closes nothing and changes no record.
C3_ClosedExactlyOnce ==
    /\ [](/\ \A f \in Files : closes[f] <= 1
          /\ \A f \in LiveFiles(handles) : closes[f] = 0
          /\ Cardinality({f \in Files : closes[f] = 1})
                = Cardinality(issued \ DOMAIN handles)
          /\ \A fh \in issued \ DOMAIN handles : GetResult(handles, fh) = NoFile)
    /\ [][/\ (htCall'.op = "Release" /\ htCall'.fh \in DOMAIN handles) =>
               LET f == handles[htCall'.fh].file
               IN  /\ htCall'.fh \notin DOMAIN handles'
                   /\ closes' = [closes EXCEPT ![f] = 1]
                   /\ GetResult(handles', htCall'.fh) = NoFile
          /\ (htCall'.op = "Release" /\ htCall'.fh \notin DOMAIN handles) =>
               /\ htRet' = EBADF
               /\ closes' = closes
               /\ handles' = handles
          /\ (htCall'.op = "CloseAll") =>
               /\ handles' = EmptyMap
               /\ closes' = [f \in Files |->
                               IF f \in LiveFiles(handles) THEN 1 ELSE closes[f]]]_vars

\* a handle that was issued and released has just been released again, while
\* another handle is still live
C3_Witness ==
    /\ htCall.op = "Release"
    /\ htCall.fh \in issued \ DOMAIN handles
    /\ htRet = EBADF
    /\ \E f \in Files : closes[f] = 1
    /\ handles # EmptyMap

\* C4: every identifier Add returns is non-zero and greater than every
\* identifier it returned before, whatever was released or closed since;
\* the live handles are among the issued identifiers.
C4_HandleIdsIncrease ==
    /\ [](0 \notin issued /\ DOMAIN handles \subseteq issued)
    /\ [][htCall'.op = "Add" =>
              /\ htRet' # 0
              /\ htRet' \in DOMAIN handles'
              /\ \A i \in issued : htRet' > i]_vars

\* Add has returned its third identifier after the earlier handles were
\* released or closed
C4_Witness ==
    /\ htCall.op = "Add"
    /\ Cardinality(issued) >= 3
    /\ Cardinality(DOMAIN handles) = 1
    /\ \E f \in Files : closes[f] = 1

----------------------------------------------------------------------------
(* Inode manager properties                                                *)

\* C5: a GetInode on a path that holds an identity returns the identity the
\* previous GetInode on that path returned when the info has the stored
\* modification time and size, and an identity never returned before when
\* either differs; two paths never hold, or were last given, one identity.
C5_IdentityStable ==
    /\ [](/\ \A p, q \in DOMAIN pathToInode :
                p # q => pathToInode[p] # pathToInode[q]
          /\ \A p, q \in DOMAIN lastIno : p # q => lastIno[p] # lastIno[q])
    /\ [][(imCall'.op = "GetInode" /\ imCall'.path \in DOMAIN pathToInode) =>
              LET p == imCall'.path
                  stored == inodeToMeta[pathToInode[p]]
              IN  /\ pathToInode[p] \in DOMAIN inodeToMeta
                  /\ p \in DOMAIN lastIno
                  /\ stored = imCall'.info => imRet'.ino = lastIno[p]
                  /\ stored # imCall'.info =>
                         /\ imRet'.ino # lastIno[p]
                         /\ imRet'.ino \notin allocated]_vars

\* the first path is given its first identity again after the second path
\* changed twice and both caches were used
C5_Witness ==
    /\ imCall.op = "GetInode"
    /\ imCall.path = "x"
    /\ imRet.ino = 2
    /\ "y" \in DOMAIN pathToInode
    /\ pathToInode["y"] = 4
    /\ attrCache.items # {}
    /\ dirCache.items # {}

\* C6: an identity GetInode returns is either the one its path holds or
\* greater than every identity returned before; Clear leaves the counter as
\* it is; identity 0 is never returned.
C6_IdentitiesNeverReassigned ==
    /\ [](/\ NoInode \notin allocated
          /\ \A p \in DOMAIN pathToInode : pathToInode[p] \in allocated
          /\ \A i \in allocated : i <= nextInode)
    /\ [][/\ imCall'.op = "GetInode" =>
                \/ /\ imCall'.path \in DOMAIN pathToInode
                   /\ imRet'.ino = pathToInode[imCall'.path]
                   /\ inodeToMeta[imRet'.ino] = imCall'.info
                \/ \A i \in allocated : imRet'.ino > i
          /\ imCall'.op = "Clear" => nextInode' = nextInode]_vars

\* a path is given a new identity after a Clear that followed GetInode calls
\* on both paths
C6_Witness ==
    /\ imCall.op = "GetInode"
    /\ DOMAIN lastIno = InodePaths
    /\ Cardinality(DOMAIN pathToInode) = 1
    /\ imRet.ino = 4
    /\ allocated = {2, 3, 4}

----------------------------------------------------------------------------
(* Cache properties.  A step that leaves the clock alone is a call of the  *)
(* cache, the one cacheCall names afterwards.                              *)

\* C7: a cache with capacity C > 0 never holds more than C entries; a cache
\* with capacity 0 never evicts, and a Put of a key into it keeps every entry
\* it held; the map and the list hold the same number of entries.
C7_LenWithinCapacity ==
    /\ [](/\ cache.maxSize > 0 => lruLen(cache) <= cache.maxSize
          /\ cache.maxSize = 0 => cache.evictions = 0
          /\ Cardinality(cache.items) = lruLen(cache))
    /\ [][(now' = now /\ cacheCall'.op = "Put" /\ cache.maxSize = 0) =>
              cache'.items = cache.items \cup {cacheCall'.key}]_vars

\* a bounded cache is full after a Put that evicted
C7_Witness ==
    /\ cacheCall.op = "Put"
    /\ cache.maxSize = 2
    /\ lruLen(cache) = 2
    /\ cache.evictions = 1

\* C8: a Put of a new key into a full bounded cache evicts exactly one entry,
\* the one whose most recent touch is the oldest, and never the new key.
C8_EvictsLeastRecentlyTouched ==
    [][(/\ now' = now
        /\ cacheCall'.op = "Put"
        /\ cacheCall'.key \notin cache.items
        /\ cache.maxSize > 0
        /\ lruLen(cache) >= cache.maxSize) =>
          LET k == cacheCall'.key
              oldest == touchOrder[Len(touchOrder)]
          IN  /\ oldest # k
              /\ k \in cache'.items
              /\ cache'.items = (cache.items \cup {k}) \ {oldest}
              /\ Cardinality(cache'.items) = Cardinality(cache.items)
              /\ cache'.evictions = cache.evictions + 1]_vars

\* a Put has evicted after a Get hit moved the entry stored earliest to the
\* front: that entry is still held, behind the new key
C8_Witness ==
    /\ cacheCall.op = "Put"
    /\ cacheCall.branch = "insert"
    /\ cache.evictions = 1
    /\ cache.hits = 1
    /\ lruLen(cache) = 2
    /\ cache.lruList[2].timestamp < cache.lruList[1].timestamp

\* C9: a Get of a key that is held hits while the time since the key's last
\* Put is at most the time to live, and misses and removes the entry once it
\* is more; with a time to live of 0 it always hits.
C9_ExpiryFromLastPut ==
    [][(now' = now /\ cacheCall'.op = "Get" /\ cacheCall'.key \in cache.items) =>
          LET k == cacheCall'.key
              age == now - putAt[k]
          IN  /\ (cache.ttl = 0 \/ age <= cache.ttl) =>
                     /\ cacheRet'.ok
                     /\ k \in cache'.items
              /\ (cache.ttl > 0 /\ age > cache.ttl) =>
                     /\ ~cacheRet'.ok
                     /\ k \notin cache'.items]_vars

\* a Get has found its entry expired after an earlier Get hit
C9_Witness ==
    /\ cacheCall.op = "Get"
    /\ cacheCall.branch = "expired"
    /\ cache.ttl > 0
    /\ cache.hits = 1
    /\ cache.misses = 1

----------------------------------------------------------------------------
(* The byte-range table on one path, next to one owner's exclusive         *)
(* whole-file lock: whole-file and middle ranges in both modes, unlocks of *)
(* the middle and of the first two bytes.                                  *)

RangeRequests(owner) ==
    {lk \in LockRequests(owner) :
        \/ lk.Typ = F_UNLCK /\ <<lk.Start, lk.End>> \in {<<1, 2>>, <<0, 2>>}
        \/ lk.Typ # F_UNLCK /\ <<lk.Start, lk.End>> \in {<<0, WholeFileEnd>>, <<1, 2>>}}

RangeFlags == {LOCK_EX, LOCK_UN}

NextRanges ==
    \/ \E p \in PosixPaths, o \in PosixOwners : \E lk \in RangeRequests(o) : Setlk(p, o, lk)
    \/ \E p \in PosixPaths, o \in PosixOwners : \E lk \in RangeRequests(o) : Setlkw(p, o, lk)
    \/ \E p \in PosixPaths, o \in PosixOwners : \E lk \in RangeRequests(o) : Getlk(p, o, lk)
    \/ \E p \in PosixPaths, f \in RangeFlags : Flock(p, 1, f)
    \/ \E o \in PosixOwners : ReleaseOwner(o)

SpecRanges == Init /\ [][NextRanges]_vars

----------------------------------------------------------------------------
(* Byte-range requests: what Setlk, Setlkw and Getlk do in every table the *)
(* manager reaches, for every argument.                                    *)

\* the ranges of a list, and what is left of them before Start and after End
RangesAround(locks, lk) ==
    {locks[i] : i \in 1 .. Len(locks)}
    \cup {[locks[i] EXCEPT !.end = lk.Start] : i \in 1 .. Len(locks)}
    \cup {[locks[i] EXCEPT !.start = lk.End] : i \in 1 .. Len(locks)}

\* the unlock requests of an owner
UnlockRequests(owner) == {lk \in LockRequests(owner) : lk.Typ = F_UNLCK}

\* how many times a list records a range
CountIn(locks, r) == Cardinality({i \in 1 .. Len(locks) : locks[i] = r})

\* the range is one an unlock of [Start, End) by owner cuts
CutBy(r, owner, lk) == r.owner = owner /\ r.start < lk.End /\ lk.Start < r.end

\* how many times the list must record r after the unlock: as before when r
\* is not cut, plus once for every cut range that leaves r before the unlock
\* start or after the unlock end
CountAfterUnlock(locks, owner, lk, r) ==
    (IF CutBy(r, owner, lk) THEN 0 ELSE CountIn(locks, r))
    + Cardinality({i \in 1 .. Len(locks) :
          /\ CutBy(locks[i], owner, lk)
          /\ locks[i].start < lk.Start
          /\ r = [locks[i] EXCEPT !.end = lk.Start]})
    + Cardinality({i \in 1 .. Len(locks) :
          /\ CutBy(locks[i], owner, lk)
          /\ locks[i].end > lk.End
          /\ r = [locks[i] EXCEPT !.start = lk.End]})

\* C11: an unlock of [us, ue) by owner o returns success and leaves on the
\* path exactly the ranges that were not cut, plus [s, us) for every cut
\* range with s < us and [ue, e) for every cut range with e > ue, each with
\* the mode and pid of the range it was cut from; the other paths are as
\* before, and a step that changes the byte ranges changes no whole-file lock.
C11_UnlockLeavesRemainders ==
    /\ [](\A p \in Paths, o \in PosixOwners :
            \A lk \in UnlockRequests(o) :
               \A res \in {SetlkResult(posixLocks, p, o, lk)} :
               \A before \in {locksOf(posixLocks, p)} :
               \A after \in {locksOf(res.posixLocks, p)} :
               \A around \in {RangesAround(before, lk)} :
                   /\ res.errno = OK
                   /\ \A r \in around :
                          CountIn(after, r) = CountAfterUnlock(before, o, lk, r)
                   /\ \A i \in 1 .. Len(after) :
                          /\ after[i] \in around
                          /\ after[i].start < after[i].end
                   /\ p \in DOMAIN res.posixLocks <=> after # <<>>
                   /\ \A q \in Paths \ {p} :
                          locksOf(res.posixLocks, q) = locksOf(posixLocks, q)
                   /\ DOMAIN res.posixLocks \subseteq DOMAIN posixLocks)
    /\ [][posixLocks' # posixLocks => flocks' = flocks]_vars

\* an unlock of the middle of a whole-file write range has left its two ends
\* to the same owner, in the same mode and with the same pid
C11_Witness ==
    /\ lmRet = OK
    /\ "x" \in DOMAIN posixLocks
    /\ Len(posixLocks["x"]) = 2
    /\ \E o \in PosixOwners :
          /\ posixLocks["x"][1] = [owner |-> o, start |-> 0, end |-> 1,
                                   typ |-> F_WRLCK, pid |-> PidOf(o)]
          /\ posixLocks["x"][2] = [owner |-> o, start |-> 2, end |-> WholeFileEnd,
                                   typ |-> F_WRLCK, pid |-> PidOf(o)]

\* the read and write requests of an owner
AcquireRequests(owner) == {lk \in LockRequests(owner) : lk.Typ # F_UNLCK}

\* a recorded range of another owner overlaps the request, and one of the two
\* is write-mode
Blocks(r, owner, lk) ==
    /\ r.owner # owner
    /\ r.start < lk.End /\ lk.Start < r.end
    /\ (r.typ = F_WRLCK \/ lk.Typ = F_WRLCK)

\* C12: a read or write Setlk returns success and appends the requested range
\* (owner, bounds, mode, pid) to the path's list exactly when no range of
\* another owner on the path overlaps it with write-mode on either side;
\* otherwise it returns EAGAIN and changes nothing.  Ranges of the requesting
\* owner never count.
C12_SetlkGrantedIffNoConflict ==
    \A p \in Paths, o \in PosixOwners :
        \A lk \in AcquireRequests(o) :
            \A res \in {SetlkResult(posixLocks, p, o, lk)} :
            \A before \in {locksOf(posixLocks, p)} :
                IF \E i \in 1 .. Len(before) : Blocks(before[i], o, lk)
                THEN /\ res.errno = EAGAIN
                     /\ res.posixLocks = posixLocks
                ELSE /\ res.errno = OK
                     /\ res.posixLocks =
                            MapPut(posixLocks, p,
                                   Append(before,
                                          [owner |-> o, start |-> lk.Start,
                                           end |-> lk.End, typ |-> lk.Typ,
                                           pid |-> lk.Pid]))

\* a request has been refused while one owner holds a write range inside its
\* own whole-file range, next to the state of the refusal
C12_Witness ==
    /\ lmRet = EAGAIN
    /\ "x" \in DOMAIN posixLocks
    /\ \E i, j \in 1 .. Len(posixLocks["x"]) :
          /\ i # j
          /\ posixLocks["x"][i].owner = posixLocks["x"][j].owner
          /\ posixLocks["x"][i].typ = F_WRLCK
          /\ posixLocks["x"][i].start < posixLocks["x"][j].end
          /\ posixLocks["x"][j].start < posixLocks["x"][i].end

----------------------------------------------------------------------------
(* Whole-file requests: what Flock does in every table the manager         *)
(* reaches, for every owner and every flag set.                            *)

\* the flag sets that ask for a lock, shared unless LOCK_EX is set
AcquireFlags == {f \in FlockFlags : ~HasFlag(f, LOCK_UN)}

\* the mode a flag set asks for
ModeOf(flags) == IF HasFlag(flags, LOCK_EX) THEN LOCK_EX ELSE LOCK_SH

\* the two errno names of a refusal
Refusals == {EWOULDBLOCK, EAGAIN}

\* C13: while an owner holds a path exclusively, every lock request of
\* another owner on it is refused and changes nothing; when that owner stops
\* holding it (unlock or ReleaseOwner) the path has no record, and on a path
\* without a record every lock request succeeds and makes the requester the
\* only holder in the mode asked for.
C13_ExclusiveBlocksOthers ==
    /\ [](\A p \in Paths, o \in Owners : \A f \in AcquireFlags :
            \A res \in {FlockResult(flocks, p, o, f)} :
                /\ (/\ p \in DOMAIN flocks
                    /\ flocks[p].lockType = LOCK_EX
                    /\ o \notin flocks[p].owners) =>
                        /\ res.errno \in Refusals
                        /\ res.errno # OK
                        /\ res.flocks = flocks
                /\ p \notin DOMAIN flocks =>
                        /\ res.errno = OK
                        /\ res.flocks = MapPut(flocks, p,
                               [lockType |-> ModeOf(f), owners |-> {o}]))
    /\ [][\A p \in DOMAIN flocks : \A o \in flocks[p].owners :
             (/\ flocks[p].lockType = LOCK_EX
              /\ ~(p \in DOMAIN flocks' /\ o \in flocks'[p].owners)) =>
                  p \notin DOMAIN flocks']_vars

\* a request has just been refused on a path another owner holds
\* exclusively, while the other path has no holder
C13_Witness ==
    /\ lmRet = EAGAIN
    /\ DOMAIN flocks = {"x"}
    /\ flocks["x"].lockType = LOCK_EX
    /\ flocks["x"].owners = {2}

\* C14: every record has a holder; on a path with no record or a shared one,
\* every shared request succeeds and adds the requester to the holders, who
\* all stay; an exclusive request of an owner that is not a holder is refused
\* on a shared record and changes nothing, and succeeds on a path with no
\* record, which is what a path becomes when its last holder goes.
C14_SharedCoexist ==
    /\ [](/\ \A p \in DOMAIN flocks : flocks[p].owners # {}
          /\ \A p \in Paths, o \in Owners : \A f \in AcquireFlags :
               \A res \in {FlockResult(flocks, p, o, f)} :
                  /\ (/\ ModeOf(f) = LOCK_SH
                      /\ p \in DOMAIN flocks
                      /\ flocks[p].lockType = LOCK_SH) =>
                          /\ res.errno = OK
                          /\ res.flocks = [flocks EXCEPT ![p].owners = @ \cup {o}]
                  /\ (ModeOf(f) = LOCK_SH /\ p \notin DOMAIN flocks) =>
                          /\ res.errno = OK
                          /\ res.flocks[p] = [lockType |-> LOCK_SH, owners |-> {o}]
                  /\ (/\ ModeOf(f) = LOCK_EX
                      /\ p \in DOMAIN flocks
                      /\ flocks[p].lockType = LOCK_SH
                      /\ o \notin flocks[p].owners) =>
                          /\ res.errno \in Refusals
                          /\ res.flocks = flocks
                  /\ (ModeOf(f) = LOCK_EX /\ p \notin DOMAIN flocks) =>
                          /\ res.errno = OK
                          /\ res.flocks[p] = [lockType |-> LOCK_EX, owners |-> {o}])
    /\ [][\A p \in DOMAIN flocks :
             (p \in DOMAIN flocks' /\ flocks[p].lockType = LOCK_SH) =>
                 \/ flocks'[p].lockType = LOCK_SH
                 \/ flocks[p].owners = flocks'[p].owners
                      /\ Cardinality(flocks[p].owners) = 1]_vars

\* every owner holds one path shared, and one of them holds the other path
\* shared as well
C14_Witness ==
    /\ lmRet = OK
    /\ DOMAIN flocks = Paths
    /\ flocks["x"] = [lockType |-> LOCK_SH, owners |-> Owners]
    /\ flocks["y"].lockType = LOCK_SH
    /\ Cardinality(flocks["y"].owners) = 1

\* C15: for a request of an owner that holds the path: asking for the mode
\* held succeeds and changes nothing; asking for exclusive while holding
\* shared succeeds and makes the record exclusive when the requester is the
\* only holder, and is otherwise refused and changes nothing; asking for
\* shared while holding exclusive succeeds and makes the record shared, after
\* which a shared request of any other owner succeeds.
C15_HolderRelockUpgradeDowngrade ==
    \A p \in DOMAIN flocks : \A o \in flocks[p].owners : \A f \in AcquireFlags :
        \A res \in {FlockResult(flocks, p, o, f)} :
            /\ ModeOf(f) = flocks[p].lockType =>
                   /\ res.errno = OK
                   /\ res.flocks = flocks
            /\ (ModeOf(f) = LOCK_EX /\ flocks[p].lockType = LOCK_SH) =>
                   IF flocks[p].owners = {o}
                   THEN /\ res.errno = OK
                        /\ res.flocks = [flocks EXCEPT ![p].lockType = LOCK_EX]
                   ELSE /\ res.errno \in Refusals
                        /\ res.flocks = flocks
            /\ (ModeOf(f) = LOCK_SH /\ flocks[p].lockType = LOCK_EX) =>
                   /\ res.errno = OK
                   /\ res.flocks = [flocks EXCEPT ![p].lockType = LOCK_SH]
                   /\ \A other \in Owners \ {o} :
                          /\ FlockResult(res.flocks, p, other, LOCK_SH).errno = OK
                          /\ other \in FlockResult(res.flocks, p, other,
                                                   LOCK_SH).flocks[p].owners

\* a request has been refused while every owner holds the one locked path
\* shared: the refused request was an upgrade
C15_Witness ==
    /\ lmRet = EWOULDBLOCK
    /\ DOMAIN flocks = {"y"}
    /\ flocks["y"] = [lockType |-> LOCK_SH, owners |-> Owners]

\* the request conflicts: the path is held exclusively by another owner, or
\* it is held shared by another owner and the request asks for exclusive
Conflicting(p, o, f) ==
    /\ p \in DOMAIN flocks
    /\ flocks[p].owners \ {o} # {}
    /\ (flocks[p].lockType = LOCK_EX \/ ModeOf(f) = LOCK_EX)

\* the same flag set with the non-blocking flag set, and with it cleared
WithNB(f) == IF HasFlag(f, LOCK_NB) THEN f ELSE f + LOCK_NB

WithoutNB(f) == IF HasFlag(f, LOCK_NB) THEN f - LOCK_NB ELSE f

\* C16: a conflicting request returns EWOULDBLOCK when LOCK_NB is set and
\* EAGAIN when it is not, never success, and changes nothing; the outcome with
\* LOCK_NB set differs from the outcome of the same request without it.
C16_ConflictOutcomesDistinct ==
    \A p \in Paths, o \in Owners : \A f \in AcquireFlags :
        Conflicting(p, o, f) =>
            /\ FlockResult(flocks, p, o, f).errno =
                   (IF HasFlag(f, LOCK_NB) THEN EWOULDBLOCK ELSE EAGAIN)
            /\ FlockResult(flocks, p, o, f).errno # OK
            /\ FlockResult(flocks, p, o, f).flocks = flocks
            /\ FlockResult(flocks, p, o, WithNB(f)).errno
                   # FlockResult(flocks, p, o, WithoutNB(f)).errno

\* the flag sets that unlock: LOCK_UN with any other bits
UnlockFlags == {f \in FlockFlags : HasFlag(f, LOCK_UN)}

\* C17: an unlock always returns success; it deletes the record when the
\* owner is its only holder, takes the owner out of the holders and keeps the
\* mode when others remain, and changes nothing when the owner is not a
\* holder or the path has no record; the other paths are as before, and the
\* owner holds nothing on the path afterwards, however it acquired the lock.
C17_UnlockRemovesOnlyOwner ==
    \A p \in Paths, o \in Owners : \A f \in UnlockFlags :
        \A res \in {FlockResult(flocks, p, o, f)} :
            /\ res.errno = OK
            /\ \A q \in Paths \ {p} :
                   /\ q \in DOMAIN res.flocks <=> q \in DOMAIN flocks
                   /\ q \in DOMAIN flocks => res.flocks[q] = flocks[q]
            /\ (p \notin DOMAIN flocks \/ o \notin flocks[p].owners) =>
                   res.flocks = flocks
            /\ (p \in DOMAIN flocks /\ flocks[p].owners = {o}) =>
                   p \notin DOMAIN res.flocks
            /\ (p \in DOMAIN flocks /\ o \in flocks[p].owners
                   /\ flocks[p].owners # {o}) =>
                   /\ p \in DOMAIN res.flocks
                   /\ res.flocks[p].lockType = flocks[p].lockType
                   /\ res.flocks[p].owners = flocks[p].owners \ {o}
            /\ p \in DOMAIN res.flocks => o \notin res.flocks[p].owners

\* two of the owners hold one path shared after a successful call, and the
\* third holds the other path exclusively
C17_Witness ==
    /\ lmRet = OK
    /\ DOMAIN flocks = Paths
    /\ flocks["x"] = [lockType |-> LOCK_SH, owners |-> {1, 3}]
    /\ flocks["y"] = [lockType |-> LOCK_EX, owners |-> {2}]

\* the write-mode candidates of an owner
WriteRequests(owner) == {lk \in RangeRequests(owner) : lk.Typ = F_WRLCK}

\* C18: Getlk reports F_UNLCK when no range of another owner on the path
\* overlaps the candidate with write-mode on either side, and otherwise the
\* mode, start, end and pid of a range on the path that does; a Getlk step
\* returns success and leaves both tables as they were.
C18_GetlkReportsConflict ==
    /\ [](\A p \in Paths, o \in PosixOwners : \A lk \in LockRequests(o) :
            \A out \in {GetlkResult(posixLocks, p, o, lk)} :
            \A held \in {locksOf(posixLocks, p)} :
                IF \E i \in 1 .. Len(held) : Blocks(held[i], o, lk)
                THEN \E i \in 1 .. Len(held) :
                        /\ Blocks(held[i], o, lk)
                        /\ out = [Typ |-> held[i].typ, Start |-> held[i].start,
                                  End |-> held[i].end, Pid |-> held[i].pid]
                ELSE out.Typ = F_UNLCK)
    /\ [][\A p \in PosixPaths, o \in PosixOwners : \A lk \in WriteRequests(o) :
             Getlk(p, o, lk) =>
                 /\ lmRet' = OK
                 /\ posixLocks' = posixLocks
                 /\ flocks' = flocks]_vars

\* one owner holds a write range in the middle of the file and the other the
\* ranges on both sides of it; the last call returned success
C18_Witness ==
    /\ lmRet = OK
    /\ "x" \in DOMAIN posixLocks
    /\ Len(posixLocks["x"]) = 3
    /\ \E i \in 1 .. 3 :
          /\ posixLocks["x"][i].typ = F_WRLCK
          /\ posixLocks["x"][i].start = 1
          /\ posixLocks["x"][i].end = 2
          /\ \A j \in (1 .. 3) \ {i} :
                posixLocks["x"][j].owner # posixLocks["x"][i].owner

----------------------------------------------------------------------------
(* Setlk next to Setlkw: write locks and unlocks of the two halves of the   *)
(* file by two owners on two paths.                                        *)

NextSetlkw ==
    \/ \E p \in Paths, o \in PosixOwners : \E lk \in FewRequests(o) : Setlk(p, o, lk)
    \/ \E p \in Paths, o \in PosixOwners : \E lk \in FewRequests(o) : Setlkw(p, o, lk)

SpecSetlkw == Init /\ [][NextSetlkw]_vars

\* C19: for every path, owner and request, a step is a Setlkw of that request
\* exactly when it is a Setlk of it: Setlkw is enabled wherever Setlk is,
\* returns the same errno and leaves the same tables.
C19_SetlkwIsSetlk ==
    [][\A p \in Paths, o \in PosixOwners : \A lk \in FewRequests(o) :
          Setlkw(p, o, lk) <=> Setlk(p, o, lk)]_vars

\* a request has been answered EAGAIN: one owner holds the first half of a
\* path and the other owner the second half
C19_Witness ==
    /\ lmRet = EAGAIN
    /\ \E p \in DOMAIN posixLocks :
          /\ Len(posixLocks[p]) = 2
          /\ posixLocks[p][1].owner # posixLocks[p][2].owner
          /\ posixLocks[p][1].typ = F_WRLCK
          /\ posixLocks[p][2].typ = F_WRLCK

----------------------------------------------------------------------------
(* Concurrent callers of Flock, one per (path, owner), each asking once for *)
(* LOCK_EX|LOCK_NB and never unlocking: a caller takes lm.mu (line 193),    *)
(* then runs the body and releases lm.mu as it returns (line 194).         *)

\* lm.mu.Lock() of the caller
FlockEnter(path, owner) ==
    /\ <<path, owner>> \notin DOMAIN flockCalls
    /\ lmMu = NoHolder
    /\ lmMu' = {owner}
    /\ flockCalls' = MapPut(flockCalls, <<path, owner>>,
                            [pc |-> "locked", errno |-> OK])
    /\ UNCHANGED <<flocks, posixLocks, lmRet>>
    /\ UNCHANGED <<handleVars, cacheVars, inodeVars, now, lockedVia, lmCalls, adapterVars>>

\* the body of Flock and the deferred lm.mu.Unlock()
FlockReturn(path, owner) ==
    /\ <<path, owner>> \in DOMAIN flockCalls
    /\ flockCalls[<<path, owner>>].pc = "locked"
    /\ lmMu = {owner}
    /\ \E r \in {FlockResult(flocks, path, owner, LOCK_EX + LOCK_NB)} :
           /\ flocks' = r.flocks
           /\ lmRet' = r.errno
           /\ flockCalls' = [flockCalls EXCEPT ![<<path, owner>>] =
                                [pc |-> "returned", errno |-> r.errno]]
    /\ lmMu' = NoHolder
    /\ UNCHANGED posixLocks
    /\ UNCHANGED <<handleVars, cacheVars, inodeVars, now, lockedVia, lmCalls, adapterVars>>

NextRace ==
    \/ \E p \in Paths, o \in Owners : FlockEnter(p, o)
    \/ \E p \in Paths, o \in Owners : FlockReturn(p, o)

SpecRace == Init /\ [][NextRace]_vars

\* the callers on a path that have returned, and those that returned success
Returned(p) ==
    {o \in Owners : /\ <<p, o>> \in DOMAIN flockCalls
                    /\ flockCalls[<<p, o>>].pc = "returned"}

Winners(p) == {o \in Returned(p) : flockCalls[<<p, o>>].errno = OK}

\* C20: on every path, as soon as one concurrent caller has returned exactly
\* one has returned success, every other caller that has returned was
\* refused with EWOULDBLOCK, and the winner is the only holder.
C20_OneExclusiveWinner ==
    \A p \in Paths :
        Returned(p) # {} =>
            /\ Cardinality(Winners(p)) = 1
            /\ \A o \in Returned(p) \ Winners(p) :
                   flockCalls[<<p, o>>].errno = EWOULDBLOCK
            /\ p \in DOMAIN flocks
            /\ flocks[p] = [lockType |-> LOCK_EX, owners |-> Winners(p)]

\* every owner has called and returned on both paths
C20_Witness ==
    \A p \in Paths : Returned(p) = Owners

----------------------------------------------------------------------------
(* Close failures during Release                                           *)

\* the errno a caller of Release sees for each failure of file.Close()
ReportedAs(err) ==
    CASE err = Err("ErrPermission") -> EACCES
      [] err = Err("ErrClosed") -> EBADF
      [] err = Err("EOF") -> OK
      [] err = ErrnoError(ENOSPC) -> ENOSPC
      [] err = Err("other") -> EIO

\* C21: a Release of a live handle whose Close fails still removes the
\* record (Get then returns none), closes the resource once, leaves every
\* other record, the counter and the issued identifiers as they were, and
\* returns the translated close error (a permission error as EACCES); a
\* further Release of that identifier returns EBADF without closing again.
C21_CloseErrorStillRemoves ==
    [][\A fh \in HandleIds, err \in CloseErrs \ {NilError} :
          Release(fh, err) =>
             IF fh \in DOMAIN handles
             THEN /\ htRet' = ReportedAs(err)
                  /\ fh \notin DOMAIN handles'
                  /\ GetResult(handles', fh) = NoFile
                  /\ closes' = [closes EXCEPT ![handles[fh].file] = 1]
                  /\ \A h \in DOMAIN handles \ {fh} :
                        h \in DOMAIN handles' /\ handles'[h] = handles[h]
                  /\ DOMAIN handles' \subseteq DOMAIN handles
                  /\ nextHandle' = nextHandle /\ issued' = issued
             ELSE /\ htRet' = EBADF
                  /\ handles' = handles /\ closes' = closes]_vars

\* a Release has just returned EACCES for a handle that is now gone, its
\* resource closed once, while another handle is still live
C21_Witness ==
    /\ htCall.op = "Release"
    /\ htRet = EACCES
    /\ htCall.fh \in issued \ DOMAIN handles
    /\ \E f \in Files : closes[f] = 1
    /\ handles # EmptyMap

----------------------------------------------------------------------------
(* Count and CloseAll                                                      *)

\* the number of Close calls made so far, one per record removed
Removals ==
    LET RECURSIVE Sum(_)
        Sum(S) == IF S = {} THEN 0
                  ELSE LET f == CHOOSE x \in S : TRUE
                       IN  closes[f] + Sum(S \ {f})
    IN  Sum(Files)

\* C22: the number of live records, which is what Count returns, is the
\* number of identifiers Add has returned minus the number of records
\* Release and CloseAll have removed; CloseAll closes every live resource
\* and leaves the table empty, so that a Count right after it returns 0;
\* an identifier whose record is gone never becomes live again: Get
\* returns none for it and Release returns EBADF.
C22_CountAndCloseAll ==
    /\ [](/\ Cardinality(DOMAIN handles) = Cardinality(issued) - Removals
          /\ \A fh \in issued \ DOMAIN handles : GetResult(handles, fh) = NoFile)
    /\ [][/\ htCall'.op = "Count" =>
                /\ htRet' = Cardinality(issued) - Removals
                /\ htCall.op = "CloseAll" => htRet' = 0
          /\ htCall'.op = "CloseAll" =>
                /\ \A f \in LiveFiles(handles) : closes'[f] = 1
                /\ \A f \in Files \ LiveFiles(handles) : closes'[f] = closes[f]
                /\ Cardinality(DOMAIN handles') = 0
                /\ \A fh \in issued : GetResult(handles', fh) = NoFile
          /\ (DOMAIN handles') \ (DOMAIN handles) \subseteq issued' \ issued
          /\ \A fh \in issued \ DOMAIN handles, err \in CloseErrs :
                Release(fh, err) => htRet' = EBADF /\ closes' = closes
         ]_vars

\* Count has just returned 0 after three identifiers were issued and all
\* three records removed
C22_Witness ==
    /\ htCall.op = "Count"
    /\ htRet = 0
    /\ Cardinality(issued) = 3
    /\ Removals = 3
    /\ handles = EmptyMap

----------------------------------------------------------------------------
(* Clear                                                                   *)

\* C23: Clear leaves no path with an identity or a change-detection record,
\* both caches empty and TotalInodes 0; a cache gains a key only through
\* Cache or CacheDir, and until then GetCached and GetDirCache return none;
\* a GetInode on a path that Clear forgot, given the (modTime, size) the
\* path had at the Clear, returns an identity never returned before.
C23_ClearForgetsEverything ==
    [][/\ imCall'.op = "Clear" =>
             /\ pathToInode' = EmptyMap
             /\ inodeToPath' = EmptyMap
             /\ inodeToMeta' = EmptyMap
             /\ lruLen(attrCache') = 0 /\ attrCache'.items = {}
             /\ lruLen(dirCache') = 0 /\ dirCache'.items = {}
             /\ \A p \in InodePaths, t \in 0 .. MaxTime :
                    /\ ~lruGet(attrCache', p, t).ok
                    /\ ~lruGet(dirCache', p, t).ok
             /\ TotalInodes' = 0
       /\ attrCache'.items \ attrCache.items # {} => imCall'.op = "Cache"
       /\ dirCache'.items \ dirCache.items # {} => imCall'.op = "CacheDir"
       /\ (imCall'.op = "GetCached" /\ attrCache.items = {}) =>
             imRet'.value = NoValue
       /\ (imCall'.op = "GetDirCache" /\ dirCache.items = {}) =>
             imRet'.value = NoValue
       /\ (/\ imCall'.op = "GetInode"
           /\ imCall'.path \in DOMAIN clearedMeta
           /\ imCall'.path \notin DOMAIN pathToInode
           /\ imCall'.info = clearedMeta[imCall'.path]) =>
             /\ imRet'.ino \notin allocated
             /\ imRet'.ino # NoInode
             /\ imRet'.ino # lastIno[imCall'.path]
             /\ pathToInode' = MapPut(pathToInode, imCall'.path, imRet'.ino)
      ]_vars

\* after a Clear, a path known at the Clear has just been given a new
\* identity for the (modTime, size) it had then
C23_Witness ==
    /\ imCall.op = "GetInode"
    /\ sameAsCleared
    /\ DOMAIN pathToInode = {imCall.path}
    /\ imRet.ino = 3
    /\ allocated = {2, 3}
    /\ TotalInodes = 1

----------------------------------------------------------------------------
(* The manager under cache pressure: both caches hold one entry and expire *)
(* it after one tick; attributes are cached for both paths.                *)

InitPressure ==
    /\ NewLockManager
    /\ NewHandleTracker
    /\ NewInodeManager(1, 1, 1, 1)
    /\ now = 0
    /\ cache = newLRUCache(0, 0)
    /\ cacheCall = [op |-> "New", key |-> NoKey, branch |-> "new"]
    /\ cacheRet = [value |-> NoValue, ok |-> FALSE]
    /\ touchOrder = <<>>
    /\ putAt = EmptyMap
    /\ flockCalls = EmptyMap
    /\ lockedVia = {}
    /\ lmCalls = NoCalls
    /\ NewAdapter

\* files that do not change
PressureInfos == {info \in FileInfos : info.modTime = 10 /\ info.size = 7}

NextPressure ==
    \/ \E p \in InodePaths, info \in PressureInfos : GetInode(p, info)
    \/ \E p \in InodePaths : GetCached(p)
    \/ \E p \in InodePaths, a \in Attrs : Cache(p, a)
    \/ \E p \in CachedPaths, e \in DirLists : CacheDir(p, e)
    \/ \E p \in CachedPaths : GetDirCache(p)
    \/ \E p \in CachedPaths : InvalidateDir(p)
    \/ \E p \in InodePaths : InvalidateAttr(p)
    \/ Tick

SpecPressure == InitPressure /\ [][NextPressure]_vars

(* Cache pressure and the identity tables                                  *)

CacheOps == {"Cache", "CacheDir", "GetCached", "GetDirCache",
             "InvalidateAttr", "InvalidateDir"}

\* C24: the cache operations of the manager, with every eviction they
\* trigger, leave the path-to-identity table, its inverse, the
\* change-detection records and the counter as they were; a GetInode that
\* finds its path recorded with the (modTime, size) it is given returns the
\* identity the path was last given, whatever the caches hold.
C24_IdentitiesSurviveCachePressure ==
    [][/\ imCall'.op \in CacheOps =>
             /\ pathToInode' = pathToInode
             /\ inodeToPath' = inodeToPath
             /\ inodeToMeta' = inodeToMeta
             /\ nextInode' = nextInode
       /\ (/\ imCall'.op = "GetInode"
           /\ imCall'.path \in DOMAIN lastIno
           /\ imCall'.path \in DOMAIN pathToInode
           /\ inodeToMeta[pathToInode[imCall'.path]] = imCall'.info) =>
             /\ imRet'.ino = lastIno[imCall'.path]
             /\ pathToInode' = pathToInode
      ]_vars

\* GetInode has just returned the first identity again, after a second
\* identity was allocated, an entry was evicted from a cache of capacity 1
\* and a lookup missed after the clock moved
C24_Witness ==
    /\ imCall.op = "GetInode"
    /\ imRet.ino = 2
    /\ nextInode = 3
    /\ attrCache.evictions + dirCache.evictions > 0
    /\ attrCache.misses + dirCache.misses > 0
    /\ now > 0

----------------------------------------------------------------------------
(* Put on a key that is present                                            *)

\* a list without the element held for key
Without(l, key) == LET Other(e) == e.key # key IN SelectSeq(l, Other)

\* C25: a Put on a key that is present, with any value and at any capacity,
\* puts the key at the front with the new value and the time of the Put,
\* keeps every other entry, in the same order, and the length, and leaves
\* the eviction counter, like the other counters, as it was.
C25_PutOnPresentKeyUpdates ==
    /\ [](\A k \in cache.items, v \in Values :
             \A c \in {lruPut(cache, k, v, now)} :
                /\ c.lruList[1] = [key |-> k, value |-> v, timestamp |-> now]
                /\ Without(c.lruList, k) = Without(cache.lruList, k)
                /\ lruLen(c) = lruLen(cache)
                /\ c.items = cache.items
                /\ c.evictions = cache.evictions
                /\ c.hits = cache.hits /\ c.misses = cache.misses
                /\ c.maxSize = cache.maxSize /\ c.ttl = cache.ttl)
    /\ [][(now' = now /\ cacheCall'.op = "Put" /\ cacheCall'.key \in cache.items) =>
             /\ cacheCall'.branch = "update"
             /\ cache'.lruList[1].key = cacheCall'.key
             /\ cache'.lruList[1].timestamp = now
             /\ cache'.lruList[1].value \in Values
             /\ lruLen(cache') = lruLen(cache)
             /\ cache'.items = cache.items
             /\ cache'.evictions = cache.evictions
             /\ putAt'[cacheCall'.key] = now]_vars

\* a Put has just replaced, at a later time, the value of the entry at the
\* back of a full bounded cache: the entry is now at the front, nothing was
\* evicted
C25_Witness ==
    /\ cacheCall.op = "Put"
    /\ cacheCall.branch = "update"
    /\ cache.maxSize = 2
    /\ lruLen(cache) = 2
    /\ cache.evictions = 0
    /\ cache.lruList[1].key = "a"
    /\ cache.lruList[1].value = "v2"
    /\ cache.lruList[1].timestamp = now
    /\ cache.lruList[2].timestamp < now
    /\ touchOrder = <<"a", "b">>

----------------------------------------------------------------------------
(* The manager with unbounded caches that never expire: attributes are     *)
(* cached for three paths, a listing for one.                              *)

InitInvalidate ==
    /\ NewLockManager
    /\ NewHandleTracker
    /\ NewInodeManager(0, 0, 0, 0)
    /\ now = 0
    /\ cache = newLRUCache(0, 0)
    /\ cacheCall = [op |-> "New", key |-> NoKey, branch |-> "new"]
    /\ cacheRet = [value |-> NoValue, ok |-> FALSE]
    /\ touchOrder = <<>>
    /\ putAt = EmptyMap
    /\ flockCalls = EmptyMap
    /\ lockedVia = {}
    /\ lmCalls = NoCalls
    /\ NewAdapter

AttrPaths == {"x", "y", "z"}

NextInvalidate ==
    \/ \E p \in AttrPaths : GetCached(p)
    \/ \E p \in AttrPaths, a \in Attrs : Cache(p, a)
    \/ \E p \in AttrPaths : InvalidateAttr(p)
    \/ \E p \in CachedPaths, e \in DirLists : CacheDir(p, e)
    \/ \E p \in CachedPaths : GetDirCache(p)
    \/ \E p \in CachedPaths : InvalidateDir(p)
    \/ Tick

SpecInvalidate == InitInvalidate /\ [][NextInvalidate]_vars

\* Delete(key) on cache c removes the entry of key and nothing else
DeleteRemovesOnly(c, key) ==
    \A d \in {lruDelete(c, key)} :
        /\ key \notin d.items
        /\ d.items = c.items \ {key}
        /\ d.lruList = Without(c.lruList, key)
        /\ d.hits = c.hits /\ d.misses = c.misses /\ d.evictions = c.evictions
        /\ d.maxSize = c.maxSize /\ d.ttl = c.ttl
        /\ key \notin c.items => d = c
        /\ \A t \in now .. MaxTime : ~lruGet(d, key, t).ok
        /\ \A j \in d.items :
              /\ lruGet(d, j, now).ok = lruGet(c, j, now).ok
              /\ lruGet(d, j, now).value = lruGet(c, j, now).value

\* C26: Delete on either cache of the manager removes the entry of its key
\* and nothing else: the other entries keep value, timestamp and order, the
\* counters stay, a Get of the key then misses and a Delete of an absent
\* key changes nothing; InvalidateAttr and InvalidateDir are that Delete on
\* their cache and leave the other cache alone; a lookup of a path that is
\* not held returns none, and a path comes to be held only by Cache or
\* CacheDir of that path.
C26_DeleteRemovesOnlyItsKey ==
    /\ [](\A k \in AttrPaths :
             DeleteRemovesOnly(attrCache, k) /\ DeleteRemovesOnly(dirCache, k))
    /\ [][/\ imCall'.op = "InvalidateAttr" =>
                /\ imCall'.path \notin attrCache'.items
                /\ attrCache'.lruList = Without(attrCache.lruList, imCall'.path)
                /\ dirCache' = dirCache
          /\ imCall'.op = "InvalidateDir" =>
                /\ imCall'.path \notin dirCache'.items
                /\ dirCache'.lruList = Without(dirCache.lruList, imCall'.path)
                /\ attrCache' = attrCache
          /\ (now' = now /\ imCall'.op = "GetCached"
                /\ imCall'.path \notin attrCache.items) =>
                imRet'.value = NoValue
          /\ (now' = now /\ imCall'.op = "GetDirCache"
                /\ imCall'.path \notin dirCache.items) =>
                imRet'.value = NoValue
          /\ \A p \in attrCache'.items \ attrCache.items :
                imCall'.op = "Cache" /\ imCall'.path = p
          /\ \A p \in dirCache'.items \ dirCache.items :
                imCall'.op = "CacheDir" /\ imCall'.path = p]_vars

\* InvalidateAttr has just run on a path; the two other paths are held
\* with the attributes cached at different times, the listing is held
C26_Witness ==
    /\ imCall.op = "InvalidateAttr"
    /\ imCall.path = "y"
    /\ lruLen(attrCache) = 2
    /\ attrCache.lruList[1].key = "x"
    /\ attrCache.lruList[2].key = "z"
    /\ attrCache.lruList[2].timestamp < attrCache.lruList[1].timestamp
    /\ dirCache.items = CachedPaths

----------------------------------------------------------------------------
(* Cache counters                                                          *)

\* C27: every Get adds one to hits + misses: to hits when it returns a
\* value, to misses when the key is absent or expired, and never to the
\* evictions; a Put adds to the evictions the number of entries it removed
\* for capacity and leaves hits and misses; Delete, Clear and the clock
\* leave the three counters; a new cache starts them at 0.  Stats reports
\* the counters, Size equal to Len, and the hit rate hits/(hits + misses),
\* or 0 when no Get was made.
C27_CountersExact ==
    /\ [](\A s \in {lruStats(cache)} :
             /\ s.Size = lruLen(cache)
             /\ s.Size = Cardinality(cache.items)
             /\ s.Hits = cache.hits /\ s.Misses = cache.misses
             /\ s.Evictions = cache.evictions
             /\ s.HitRate.den > 0
             /\ s.HitRate.num * (cache.hits + cache.misses)
                   = cache.hits * s.HitRate.den
             /\ (cache.hits + cache.misses = 0) => s.HitRate.num = 0)
    /\ [][/\ (now' = now /\ cacheCall'.op = "Get") =>
                /\ cache'.hits + cache'.misses = cache.hits + cache.misses + 1
                /\ cache'.evictions = cache.evictions
                /\ cacheRet'.ok <=> cacheCall'.branch = "hit"
                /\ cacheRet'.ok <=> cacheRet'.value # NoValue
                /\ cacheRet'.ok => cache'.hits = cache.hits + 1
                /\ ~cacheRet'.ok => cache'.misses = cache.misses + 1
                /\ cacheCall'.key \notin cache.items => ~cacheRet'.ok
                /\ cacheCall'.branch = "expired" =>
                      /\ cacheCall'.key \in cache.items \ cache'.items
                      /\ now - putAt[cacheCall'.key] > cache.ttl
          /\ (now' = now /\ cacheCall'.op = "Put") =>
                /\ cache'.hits = cache.hits /\ cache'.misses = cache.misses
                /\ cache'.evictions - cache.evictions
                      = Cardinality(cache.items \cup {cacheCall'.key})
                          - Cardinality(cache'.items)
                /\ cache'.evictions > cache.evictions =>
                      /\ cache.maxSize > 0
                      /\ lruLen(cache) + 1 > cache.maxSize
          /\ (now' = now /\ cacheCall'.op \in {"Delete", "Clear"}) =>
                /\ cache'.hits = cache.hits /\ cache'.misses = cache.misses
                /\ cache'.evictions = cache.evictions
          /\ now' # now => cache' = cache
          /\ (now' = now /\ cacheCall'.op = "New") =>
                cache'.hits = 0 /\ cache'.misses = 0 /\ cache'.evictions = 0
         ]_vars

\* a Get has just found its entry expired, after a hit and an eviction: one
\* hit, one miss, one eviction, hit rate 1/2
C27_Witness ==
    /\ cacheCall.op = "Get"
    /\ cacheCall.branch = "expired"
    /\ cache.hits = 1
    /\ cache.misses = 1
    /\ cache.evictions = 1
    /\ lruStats(cache).HitRate = [num |-> 1, den |-> 2]
    /\ lruStats(cache).Size = 1

----------------------------------------------------------------------------
(* fuseFileHandle (operations.go, locks.go): the methods the kernel calls  *)
(* on an open file.  A handle is opened by handleTracker.Add; the lock     *)
(* methods pass the owner argument of the request to the lock manager with *)
(* the path of the handle's node; Release calls ReleaseOwner(fh.handle)    *)
(* and then handleTracker.Release(fh.handle), each run to completion.      *)

\* the lock owners the kernel presents: one that is also a handle
\* identifier and one that is not
KernelOwners == {2, 9}

\* whole-file requests made through a handle
FileFlags == {LOCK_SH, LOCK_EX}

\* byte-range requests made through a handle
FileRequests(owner) ==
    {lk \in LockRequests(owner) :
        lk.Typ = F_WRLCK /\ lk.Start = 0 /\ lk.End = WholeFileEnd}

\* what Close returns to Release
FileCloseErrs == {NilError, Err("ErrPermission")}

\* the files opened, both on one path
OpenFiles == {1, 2}

Granted(fh, path, owner, kind) ==
    [handle |-> fh, path |-> path, owner |-> owner, kind |-> kind]

\* fuseFileHandle.Flock
FileFlock(fh, owner, flags) ==
    /\ fh \in DOMAIN handles
    /\ lmMu = NoHolder
    /\ \E path \in {handles[fh].path} :
       \E r \in {FlockResult(flocks, path, owner, flags)} :
           /\ flocks' = r.flocks
           /\ lmRet' = r.errno
           /\ lockedVia' = IF r.errno = OK
                           THEN lockedVia \cup {Granted(fh, path, owner, "flock")}
                           ELSE lockedVia
    /\ UNCHANGED <<posixLocks, lmMu>>
    /\ UNCHANGED <<handleVars, cacheVars, inodeVars, now, flockCalls, lmCalls, adapterVars>>

\* fuseFileHandle.Setlk
FileSetlk(fh, owner, lk) ==
    /\ fh \in DOMAIN handles
    /\ lmMu = NoHolder
    /\ \E path \in {handles[fh].path} :
       \E r \in {SetlkResult(posixLocks, path, owner, lk)} :
           /\ r.errno = OK => PosixCount < MaxLocks
           /\ posixLocks' = r.posixLocks
           /\ lmRet' = r.errno
           /\ lockedVia' = IF r.errno = OK
                           THEN lockedVia \cup {Granted(fh, path, owner, "posix")}
                           ELSE lockedVia
    /\ UNCHANGED <<flocks, lmMu>>
    /\ UNCHANGED <<handleVars, cacheVars, inodeVars, now, flockCalls, lmCalls, adapterVars>>

\* fuseFileHandle.Setlkw
FileSetlkw(fh, owner, lk) == FileSetlk(fh, owner, lk)

\* fuseFileHandle.Release, with err the value file.Close() returns
FileRelease(fh, err) ==
    /\ fh \in DOMAIN handles
    /\ lmMu = NoHolder
    /\ flocks' = releaseFlocks(flocks, DOMAIN flocks, fh)
    /\ posixLocks' = releasePosix(posixLocks, DOMAIN posixLocks, fh)
    /\ closes' = [closes EXCEPT ![handles[fh].file] = @ + 1]
    /\ handles' = removeRecord(handles, fh)
    /\ htCall' = [op |-> "Release", fh |-> fh]
    /\ htRet' = closeError(err)
    /\ lockedVia' = {e \in lockedVia : e.handle # fh}
    /\ UNCHANGED <<lmMu, lmRet, nextHandle, issued>>
    /\ UNCHANGED <<cacheVars, inodeVars, now, flockCalls, lmCalls, adapterVars>>

NextFile ==
    \/ \E f \in OpenFiles, fl \in OpenFlags, p \in PosixPaths : Add(f, fl, p)
    \/ \E fh \in OpenFiles, o \in KernelOwners, f \in FileFlags :
          FileFlock(fh, o, f)
    \/ \E fh \in OpenFiles, o \in KernelOwners : \E lk \in FileRequests(o) :
          FileSetlk(fh, o, lk)
    \/ \E fh \in OpenFiles, o \in KernelOwners : \E lk \in FileRequests(o) :
          FileSetlkw(fh, o, lk)
    \/ \E fh \in OpenFiles, err \in FileCloseErrs : FileRelease(fh, err)

SpecFile == Init /\ [][NextFile]_vars

\* the lock of a grant is recorded in the tables
Held(fl, pl, e) ==
    IF e.kind = "flock"
    THEN e.path \in DOMAIN fl /\ e.owner \in fl[e.path].owners
    ELSE \E i \in 1 .. Len(locksOf(pl, e.path)) : locksOf(pl, e.path)[i].owner = e.owner

\* C28: when an open handle is released, every lock granted to a call made
\* through it is gone from both tables, and every lock granted only to
\* calls made through other handles is still held.
C28_ReleaseFreesHandleLocks ==
    [][\A fh \in DOMAIN handles :
          (htCall'.op = "Release" /\ htCall'.fh = fh /\ fh \notin DOMAIN handles') =>
              /\ \A e \in lockedVia :
                    e.handle = fh => ~Held(flocks', posixLocks', e)
              /\ \A e \in lockedVia :
                    (/\ e.handle # fh
                     /\ Held(flocks, posixLocks, e)
                     /\ Granted(fh, e.path, e.owner, e.kind) \notin lockedVia)
                      => Held(flocks', posixLocks', e)]_vars

----------------------------------------------------------------------------
(* Conflicts change nothing; locks come and go only by their owner's calls *)

\* the owners recorded on the whole-file lock of a path
FlockHolders(fl, p) == IF p \in DOMAIN fl THEN fl[p].owners ELSE {}

\* the byte ranges recorded for an owner on a path, in order
OwnRanges(pl, p, o) ==
    LET Own(r) == r.owner = o IN SelectSeq(locksOf(pl, p), Own)

Elems(seq) == {seq[i] : i \in 1 .. Len(seq)}

\* C29: a call that returned a refusal changed neither table; an owner
\* comes to hold a whole-file lock, or a byte range is recorded for
\* it, only in a step that is a successful call of that owner on that
\* path; an owner stops holding a whole-file lock, or one of its byte
\* ranges goes, only in its own unlock call or in ReleaseOwner of it.
C29_ConflictsChangeNothing ==
    [][/\ (lmMu = NoHolder /\ lmMu' = NoHolder /\ lmRet' # OK) =>
             /\ lmRet' \in Refusals
             /\ flocks' = flocks
             /\ posixLocks' = posixLocks
       /\ flocks' # flocks =>
             \A p \in Paths, o \in PosixOwners :
                /\ o \in FlockHolders(flocks', p) \ FlockHolders(flocks, p) =>
                      /\ lmRet' = OK
                      /\ \E f \in SomeFlags \ {LOCK_UN} : Flock(p, o, f)
                /\ o \in FlockHolders(flocks, p) \ FlockHolders(flocks', p) =>
                      \/ lmMu = NoHolder /\ lmMu' = {o}
                      \/ lmRet' = OK /\ Flock(p, o, LOCK_UN)
       /\ posixLocks' # posixLocks =>
             \A p \in {q \in Paths : locksOf(posixLocks', q) # locksOf(posixLocks, q)} :
             \A o \in PosixOwners :
             \A old \in {OwnRanges(posixLocks, p, o)} :
             \A new \in {OwnRanges(posixLocks', p, o)} :
                /\ (Len(new) > Len(old) \/ ~(Elems(new) \subseteq Elems(old))) =>
                      /\ lmRet' = OK
                      /\ \E lk \in FewRequests(o) :
                            Setlk(p, o, lk) \/ Setlkw(p, o, lk)
                /\ ~(Elems(old) \subseteq Elems(new)) =>
                      \/ lmMu = {o} /\ lmMu' = NoHolder
                      \/ /\ lmRet' = OK
                         /\ \E lk \in FewRequests(o) :
                               /\ lk.Typ = F_UNLCK
                               /\ Setlk(p, o, lk) \/ Setlkw(p, o, lk)
      ]_vars

\* a request has just been refused while one owner holds an exclusive
\* whole-file lock and the two owners hold byte ranges on one path
C29_Witness ==
    /\ lmRet \in Refusals
    /\ lmMu = NoHolder
    /\ \E p \in DOMAIN flocks : flocks[p].lockType = LOCK_EX
    /\ \E p \in DOMAIN posixLocks :
          /\ OwnRanges(posixLocks, p, 1) # <<>>
          /\ OwnRanges(posixLocks, p, 2) # <<>>

----------------------------------------------------------------------------
(* Calls of the lock manager as their callers see them: a call is made,    *)
(* takes lm.mu (the first statement of every method), runs the body of the *)
(* method and returns, releasing lm.mu by the deferred Unlock.             *)

WholeFileWrite(owner) ==
    [Typ |-> F_WRLCK, Start |-> 0, End |-> WholeFileEnd, Pid |-> PidOf(owner)]

WholeFileUnlock(owner) ==
    [Typ |-> F_UNLCK, Start |-> 0, End |-> WholeFileEnd, Pid |-> PidOf(owner)]

\* the calls a caller makes: blocking whole-file requests and unlocks,
\* byte-range requests over the whole file, and ReleaseOwner
LmRequests(owner) ==
    [op : {"Flock"}, path : PosixPaths, flags : {LOCK_EX, LOCK_UN}, lk : {NoLock}]
    \cup [op : {"Setlk", "Getlk"}, path : PosixPaths, flags : {0},
          lk : {WholeFileWrite(owner)}]
    \cup [op : {"Setlkw"}, path : PosixPaths, flags : {0},
          lk : {WholeFileWrite(owner), WholeFileUnlock(owner)}]
    \cup [op : {"ReleaseOwner"}, path : {NoKey}, flags : {0}, lk : {NoLock}]

Acquiring(c) == c.op \in {"Setlk", "Setlkw"} /\ c.lk.Typ # F_UNLCK

\* a method is called
LmCall(owner, req) ==
    /\ lmCalls[owner].pc = "idle"
    /\ Acquiring(req) =>
          PosixCount + Cardinality({o \in Callers : /\ lmCalls[o].pc # "idle"
                                                    /\ Acquiring(lmCalls[o])})
             < MaxLocks
    /\ lmCalls' = [lmCalls EXCEPT ![owner] =
                      [pc |-> "called", op |-> req.op, path |-> req.path,
                       flags |-> req.flags, lk |-> req.lk, errno |-> OK]]
    /\ UNCHANGED lockVars
    /\ UNCHANGED <<handleVars, cacheVars, inodeVars, now, flockCalls, lockedVia,
                 adapterVars>>

\* lm.mu.Lock(), which needs lm.mu free, and in Getlk lm.mu.RLock(), which
\* needs it free of writers
LmLock(owner) ==
    /\ lmCalls[owner].pc = "called"
    /\ IF lmCalls[owner].op = "Getlk"
          THEN \A o \in lmMu : lmCalls[o].op = "Getlk"
          ELSE lmMu = NoHolder
    /\ lmMu' = lmMu \cup {owner}
    /\ lmCalls' = [lmCalls EXCEPT ![owner].pc = "locked"]
    /\ UNCHANGED <<flocks, posixLocks, lmRet>>
    /\ UNCHANGED <<handleVars, cacheVars, inodeVars, now, flockCalls, lockedVia,
                 adapterVars>>

\* a Setlkw that stays in its critical section while its request conflicts
lmProceedsWhenFree(owner, c) ==
    c.op = "Setlkw" => SetlkResult(posixLocks, c.path, owner, c.lk).errno = OK

\* the body of a method goes on whatever the tables hold: no method loops
\* or waits on another owner's locks, Setlkw being `return lm.Setlk(...)`
lmProceeds(owner, c) == TRUE

\* what the body of call c of owner does to the tables, and its errno
LmResult(owner, c) ==
    CASE c.op = "Flock" ->
            LET r == FlockResult(flocks, c.path, owner, c.flags)
            IN  [flocks |-> r.flocks, posixLocks |-> posixLocks, errno |-> r.errno]
      [] c.op \in {"Setlk", "Setlkw"} ->
            LET r == SetlkResult(posixLocks, c.path, owner, c.lk)
            IN  [flocks |-> flocks, posixLocks |-> r.posixLocks, errno |-> r.errno]
      [] c.op = "Getlk" ->
            [flocks |-> flocks, posixLocks |-> posixLocks, errno |-> OK]
      [] c.op = "ReleaseOwner" ->
            [flocks |-> releaseFlocks(flocks, DOMAIN flocks, owner),
             posixLocks |-> releasePosix(posixLocks, DOMAIN posixLocks, owner),
             errno |-> OK]

\* the body of the method and the deferred lm.mu.Unlock() or RUnlock()
LmReturn(owner) ==
    /\ lmCalls[owner].pc = "locked"
    /\ owner \in lmMu
    /\ lmProceeds(owner, lmCalls[owner])
    /\ \E r \in {LmResult(owner, lmCalls[owner])} :
          /\ flocks' = r.flocks
          /\ posixLocks' = r.posixLocks
          /\ lmRet' = IF lmCalls[owner].op = "ReleaseOwner" THEN lmRet ELSE r.errno
          /\ lmCalls' = [lmCalls EXCEPT ![owner].pc = "idle",
                                        ![owner].errno = r.errno]
    /\ lmMu' = lmMu \ {owner}
    /\ UNCHANGED <<handleVars, cacheVars, inodeVars, now, flockCalls, lockedVia,
                 adapterVars>>

NextCalls ==
    \/ \E o \in Callers : \E req \in LmRequests(o) : LmCall(o, req)
    \/ \E o \in Callers : LmLock(o)
    \/ \E o \in Callers : LmReturn(o)

\* a caller inside its critical section keeps running, and a caller waiting
\* for lm.mu gets it if it is free again and again (sync.RWMutex hands the
\* mutex to a waiter that has waited long, and keeps new readers out while a
\* writer waits)
SpecCalls ==
    /\ Init
    /\ [][NextCalls]_vars
    /\ \A o \in Callers : WF_vars(LmReturn(o)) /\ SF_vars(LmLock(o))

\* C30: every call of the lock manager returns, whatever locks are held
\* and whatever the other callers do.
C30_EveryCallReturns ==
    \A o \in Callers : (lmCalls[o].pc = "called") ~> (lmCalls[o].pc = "idle")

\* a blocking Setlkw has returned EAGAIN to one caller while the other
\* holds a write lock on the whole file and an exclusive whole-file lock
C30_Witness ==
    /\ lmCalls[2].pc = "idle"
    /\ lmCalls[2].op = "Setlkw"
    /\ lmCalls[2].errno = EAGAIN
    /\ lmCalls[1].pc = "idle"
    /\ \E p \in DOMAIN posixLocks : posixLocks[p][1].owner = 1
    /\ \E p \in DOMAIN flocks : flocks[p] = [lockType |-> LOCK_EX, owners |-> {1}]

----------------------------------------------------------------------------
(* Claims about the records of the lock tables.                            *)

NoEmptyFlocks(fl) == \A p \in DOMAIN fl : fl[p].owners # {}

NoEmptyLists(pl) == \A p \in DOMAIN pl : Len(pl[p]) >= 1

\* C35: the lock tables hold no empty record: every path of the whole-file
\* table has at least one owner and every path of the byte-range table has
\* at least one range, in every reachable state (between the two loops of
\* ReleaseOwner included) and after every unlock and ReleaseOwner that can
\* be issued in it.
C35_NoEmptyRecords ==
    /\ NoEmptyFlocks(flocks)
    /\ NoEmptyLists(posixLocks)
    /\ \A p \in Paths, o \in PosixOwners :
          /\ NoEmptyFlocks(FlockResult(flocks, p, o, LOCK_UN).flocks)
          /\ \A lk \in {r \in FewRequests(o) : r.Typ = F_UNLCK} :
                NoEmptyLists(SetlkResult(posixLocks, p, o, lk).posixLocks)
    /\ \A o \in PosixOwners :
          /\ NoEmptyFlocks(releaseFlocks(flocks, DOMAIN flocks, o))
          /\ NoEmptyLists(releasePosix(posixLocks, DOMAIN posixLocks, o))

\* ReleaseOwner(1) is between its two loops: x has no whole-file record, y
\* is held by owner 2 alone, and the only range on x is one of owner 1 that
\* the second loop, or an unlock of [0, 2), takes away; y has ranges too
C35_Witness ==
    /\ lmMu = {1}
    /\ "x" \notin DOMAIN flocks
    /\ "y" \in DOMAIN flocks /\ flocks["y"].owners = {2}
    /\ "x" \in DOMAIN posixLocks
    /\ Len(posixLocks["x"]) = 1
    /\ posixLocks["x"][1].owner = 1
    /\ posixLocks["x"][1].end = 2
    /\ "y" \in DOMAIN posixLocks

----------------------------------------------------------------------------
(* Claims about what a granted byte-range request adds.                    *)

RangeOf(owner, lk) ==
    [owner |-> owner, start |-> lk.Start, end |-> lk.End, typ |-> lk.Typ,
     pid |-> lk.Pid]

ReadOver(owner, lk) ==
    [Typ |-> F_RDLCK, Start |-> lk.Start, End |-> lk.End, Pid |-> PidOf(owner)]

UnlockOver(owner, lk) ==
    [Typ |-> F_UNLCK, Start |-> lk.Start, End |-> lk.End, Pid |-> PidOf(owner)]

\* the owner holds a write range over exactly the bytes of lk
HoldsWriteOver(pl, p, o, lk) ==
    \E i \in 1 .. Len(locksOf(pl, p)) :
        pl[p][i] = RangeOf(o, [lk EXCEPT !.Typ = F_WRLCK])

\* C36: a granted read- or write-mode Setlk leaves the list of the path as
\* it was with exactly one range appended, and the other paths alone; so an
\* owner that holds a write range and is granted a read range over the same
\* bytes still holds the write range, a read request of another owner on
\* those bytes is still refused, and it is granted once the owner has
\* unlocked those bytes.
C36_GrantAppendsOneRange ==
    \A p \in PosixPaths, o \in PosixOwners :
        \A lk \in {r \in RangeRequests(o) : r.Typ # F_UNLCK} :
            \A res \in {SetlkResult(posixLocks, p, o, lk)} :
                res.errno = OK =>
                    /\ res.posixLocks[p]
                         = Append(locksOf(posixLocks, p), RangeOf(o, lk))
                    /\ \A q \in DOMAIN posixLocks \ {p} :
                          /\ q \in DOMAIN res.posixLocks
                          /\ res.posixLocks[q] = posixLocks[q]
                    /\ DOMAIN res.posixLocks = DOMAIN posixLocks \cup {p}
                    /\ (lk.Typ = F_RDLCK /\ HoldsWriteOver(posixLocks, p, o, lk)) =>
                          /\ HoldsWriteOver(res.posixLocks, p, o, lk)
                          /\ \A o2 \in PosixOwners \ {o} :
                                /\ SetlkResult(res.posixLocks, p, o2,
                                               ReadOver(o2, lk)).errno = EAGAIN
                                /\ SetlkResult(
                                      SetlkResult(res.posixLocks, p, o,
                                                  UnlockOver(o, lk)).posixLocks,
                                      p, o2, ReadOver(o2, lk)).errno = OK

\* owner 1 holds a write range over the middle byte and, granted after it,
\* a read range over the same byte
C36_Witness ==
    /\ "x" \in DOMAIN posixLocks
    /\ Len(posixLocks["x"]) = 2
    /\ posixLocks["x"][1] =
          [owner |-> 1, start |-> 1, end |-> 2, typ |-> F_WRLCK, pid |-> PidOf(1)]
    /\ posixLocks["x"][2] =
          [owner |-> 1, start |-> 1, end |-> 2, typ |-> F_RDLCK, pid |-> PidOf(1)]
    /\ lmRet = OK

----------------------------------------------------------------------------
(* Getlk against Setlk.                                                    *)

\* C38: in every state, for every path, owner and read- or write-mode
\* candidate range, Getlk reports F_UNLCK exactly when a Setlk with the same
\* arguments issued in that state returns 0.
C38_GetlkAgreesWithSetlk ==
    \A p \in PosixPaths, o \in PosixOwners :
        \A lk \in {r \in LockRequests(o) : r.Typ # F_UNLCK} :
            (GetlkResult(posixLocks, p, o, lk).Typ = F_UNLCK)
                <=> (SetlkResult(posixLocks, p, o, lk).errno = OK)

\* owner 1 holds a read range over the middle byte and a write range, which
\* do not stop its own requests; over the middle byte Getlk reports no
\* conflict to a read candidate of owner 2 and the read range to a write
\* candidate
C38_Witness ==
    /\ "x" \in DOMAIN posixLocks
    /\ \E i \in 1 .. Len(posixLocks["x"]) :
          /\ posixLocks["x"][i].owner = 1
          /\ posixLocks["x"][i].typ = F_WRLCK
    /\ \A i \in 1 .. Len(posixLocks["x"]) :
          rangesOverlap(1, 2, posixLocks["x"][i].start, posixLocks["x"][i].end)
              => posixLocks["x"][i].owner = 1 /\ posixLocks["x"][i].typ = F_RDLCK
    /\ GetlkResult(posixLocks, "x", 2,
                   [Typ |-> F_RDLCK, Start |-> 1, End |-> 2, Pid |-> PidOf(2)]).Typ
          = F_UNLCK
    /\ GetlkResult(posixLocks, "x", 2,
                   [Typ |-> F_WRLCK, Start |-> 1, End |-> 2, Pid |-> PidOf(2)])
          = [Typ |-> F_RDLCK, Start |-> 1, End |-> 2, Pid |-> PidOf(1)]
    /\ GetlkResult(posixLocks, "x", 1,
                   [Typ |-> F_WRLCK, Start |-> 0, End |-> WholeFileEnd,
                    Pid |-> PidOf(1)]).Typ = F_UNLCK

----------------------------------------------------------------------------
(* Stats().TotalInodes.                                                    *)

\* C37: TotalInodes is the number of paths that hold an identity record; a
\* GetInode on a path without one raises it by one, a GetInode on a path
\* that has one leaves it as it is, whether the identity is kept or
\* replaced, Clear makes it 0, and the cache methods do not change it.
C37_TotalInodesCountsPaths ==
    [][/\ TotalInodes = Cardinality({p \in InodePaths : p \in DOMAIN pathToInode})
       /\ TotalInodes = Cardinality(DOMAIN inodeToPath)
       /\ imCall'.op = "GetInode" =>
             TotalInodes' = (IF imCall'.path \in DOMAIN pathToInode
                               THEN TotalInodes
                               ELSE TotalInodes + 1)
       /\ imCall'.op = "Clear" => TotalInodes' = 0
       /\ imCall'.op \in {"GetCached", "Cache", "CacheDir", "GetDirCache",
                          "InvalidateDir", "InvalidateAttr"}
             => TotalInodes' = TotalInodes
       /\ imCall'.op \in {"GetInode", "Clear", "GetCached", "Cache", "CacheDir",
                          "GetDirCache", "InvalidateDir", "InvalidateAttr"}
      ]_vars

\* x and y hold identities and the last GetInode has replaced the identity
\* of x, whose state had changed: three identities allocated, two counted
C37_Witness ==
    /\ imCall.op = "GetInode"
    /\ imCall.path = "x"
    /\ TotalInodes = 2
    /\ allocated = {2, 3, 4}
    /\ imRet.ino = 4
    /\ pathToInode = [p \in {"x", "y"} |-> IF p = "x" THEN 4 ELSE 3]
    /\ inodeToMeta[4] # inodeToMeta[3]

----------------------------------------------------------------------------
(* Lazy expiry.                                                            *)

\* the keys whose entries are older than the time to live at time t
ExpiredKeys(c, t) == {k \in c.items : expired(c, c.lruList[elemOf(c, k)], t)}

\* the key of the least recently used entry
BackKey(c) == c.lruList[Back(c.lruList)].key

\* C39: an entry older than the time to live stays stored and counted by
\* Len() whatever else is called and however much time passes; apart from
\* the explicit removals (Delete of its key, Clear, a new cache) it leaves
\* the cache only by a Get of its own key, which reports a miss, or by the
\* eviction a Put of a new key makes when it is the least recently used.
\* So a Put of a new key at capacity, with an expired entry stored and an
\* unexpired one least recently used, evicts the unexpired entry and leaves
\* the expired one stored.
C39_ExpiryIsLazy ==
    [][\A k \in ExpiredKeys(cache, now) :
          /\ lruLen(cache) = Cardinality(cache.items)
          /\ (k \notin cache'.items
                /\ cacheCall'.op \notin {"Delete", "Clear", "New"}) =>
                \/ /\ cacheCall' = [op |-> "Get", key |-> k, branch |-> "expired"]
                   /\ cacheRet'.ok = FALSE
                \/ /\ cacheCall'.op = "Put"
                   /\ cacheCall'.branch = "insert"
                   /\ cacheCall'.key # k
                   /\ BackKey(cache) = k
                   /\ cache'.evictions = cache.evictions + 1
          /\ (cacheCall'.op = "Delete" /\ k \notin cache'.items) =>
                cacheCall'.key = k
          /\ (cache.maxSize > 0 /\ lruLen(cache) = cache.maxSize
                /\ BackKey(cache) \notin ExpiredKeys(cache, now)) =>
                \A new \in Keys \ cache.items :
                    \A c \in {lruPut(cache, new, "v1", now)} :
                        /\ BackKey(cache) \notin c.items
                        /\ k \in c.items
                        /\ k \in ExpiredKeys(c, now)
                        /\ lruLen(c) = lruLen(cache)
      ]_vars

\* the cache is full, its most recently used entry has expired and its
\* least recently used entry has not
C39_Witness ==
    /\ cache.maxSize = 2
    /\ lruLen(cache) = 2
    /\ cache.lruList[1].key \in ExpiredKeys(cache, now)
    /\ BackKey(cache) \notin ExpiredKeys(cache, now)
    /\ cache.evictions < MaxEvictions

----------------------------------------------------------------------------
(* The InodeManager under concurrent callers.  A call is the sequence of   *)
(* the Lock, RLock, Unlock and RUnlock statements it runs, each with the   *)
(* writes the call makes at it; everything GetInode and Clear write is     *)
(* written while they hold pathMu, and every write of a cache is made      *)
(* while the cache's mu is held.                                           *)

St(do, mu, eff) == [do |-> do, mu |-> mu, eff |-> eff]

\* GetInode after `im.pathMu.Lock()`: isSameFile for a known path,
\* deleteMetaLocked for a changed one, storeMetaLocked for an allocation and
\* the deferred Unlock
GetInodeRest(path, info) ==
    IF path \in DOMAIN pathToInode
    THEN <<St("RLock", "metaMu", "none"), St("RUnlock", "metaMu", "none")>>
         \o (IF isSameFile(inodeToMeta, pathToInode[path], info)
             THEN <<>>
             ELSE <<St("Lock", "metaMu", "none"),
                    St("Unlock", "metaMu", "deleteMeta"),
                    St("Lock", "metaMu", "none"),
                    St("Unlock", "metaMu", "storeMeta")>>)
         \o <<St("Unlock", "pathMu", "none")>>
    ELSE <<St("Lock", "metaMu", "none"),
           St("Unlock", "metaMu", "storeMeta"),
           St("Unlock", "pathMu", "none")>>

\* a Clear that takes metaMu before pathMu
ClearProgramMetaFirst ==
    <<St("Lock", "metaMu", "none"),
      St("Lock", "pathMu", "clearPaths"),
      St("Lock", "attrMu", "none"), St("Unlock", "attrMu", "clearAttr"),
      St("Lock", "dirMu", "none"), St("Unlock", "dirMu", "clearDir"),
      St("Unlock", "metaMu", "clearMeta"),
      St("Unlock", "pathMu", "none")>>

\* Clear: pathMu for the whole call, inside it the Clear of each cache and
\* then the section under metaMu
ClearProgram ==
    <<St("Lock", "pathMu", "clearPaths"),
      St("Lock", "attrMu", "none"), St("Unlock", "attrMu", "clearAttr"),
      St("Lock", "dirMu", "none"), St("Unlock", "dirMu", "clearDir"),
      St("Lock", "metaMu", "none"), St("Unlock", "metaMu", "clearMeta"),
      St("Unlock", "pathMu", "none")>>

\* Stats: the length of pathToInode under pathMu, then the Stats of each cache
StatsProgram ==
    <<St("RLock", "pathMu", "none"), St("RUnlock", "pathMu", "none"),
      St("RLock", "attrMu", "none"), St("RUnlock", "attrMu", "none"),
      St("RLock", "dirMu", "none"), St("RUnlock", "dirMu", "none")>>

\* the cache of a cache method
CacheMuOf(op) ==
    IF op \in {"Cache", "InvalidateAttr"} THEN "attrMu" ELSE "dirMu"

\* the statements of a call as it starts; GetInode's go on with GetInodeRest
\* once it holds pathMu
ImProgram(op) ==
    CASE op = "GetInode" -> <<St("Lock", "pathMu", "lookup")>>
      [] op = "Clear" -> ClearProgram
      [] op = "Stats" -> StatsProgram
      [] OTHER -> <<St("Lock", CacheMuOf(op), "none"),
                    St("Unlock", CacheMuOf(op), op)>>

ImInfos == {info \in FileInfos : info.modTime = 10}

\* the methods called; GetCached and GetDirCache, which run the same two
\* statements on the cache's mu as Cache and CacheDir, are left to them
ImOps == {"GetInode", "Clear", "Stats", "Cache", "InvalidateAttr", "CacheDir",
          "InvalidateDir"}

\* the calls each thread makes: the first looks paths up, the second clears
\* the manager and samples Stats, the third calls the cache methods
ImRequests(t) ==
    CASE t = 1 -> [op : {"GetInode"}, path : CachedPaths, info : ImInfos]
      [] t = 2 -> [op : {"Clear", "Stats"}, path : {NoKey}, info : {NoInfo}]
      [] OTHER -> [op : ImOps \ {"GetInode", "Clear", "Stats"},
                   path : CachedPaths, info : {NoInfo}]

Pending(ops) == Cardinality({t \in ImThreads : imCalls[t].op \in ops
                                               /\ imCalls[t].todo # <<>>})

\* a method of the manager is called
ImCallOp(t, req) ==
    /\ imCalls[t].todo = <<>>
    /\ req.op = "GetInode" => nextInode + Pending({"GetInode"}) < MaxInode
    /\ imCalls' = [imCalls EXCEPT ![t] = [op |-> req.op, path |-> req.path,
                                          info |-> req.info,
                                          todo |-> ImProgram(req.op)]]
    /\ UNCHANGED <<imMu, absFS, nodeRet, unmounting, fsCalls>>
    /\ UNCHANGED <<lockVars, handleVars, cacheVars, inodeVars, now, flockCalls,
                   lockedVia, lmCalls>>

\* the statement can run: Lock needs the mutex free, RLock needs it free of
\* a writer
CanRun(t, st) ==
    CASE st.do = "Lock" -> imMu[st.mu].w = {} /\ imMu[st.mu].r = {}
      [] st.do = "RLock" -> imMu[st.mu].w = {}
      [] OTHER -> TRUE

MuAfter(t, st) ==
    CASE st.do = "Lock" -> [imMu EXCEPT ![st.mu].w = {t}]
      [] st.do = "RLock" -> [imMu EXCEPT ![st.mu].r = @ \cup {t}]
      [] st.do = "Unlock" -> [imMu EXCEPT ![st.mu].w = {}]
      [] st.do = "RUnlock" -> [imMu EXCEPT ![st.mu].r = @ \ {t}]

\* the tables after the writes a call makes at a statement
ImTables ==
    [pathToInode |-> pathToInode, inodeToPath |-> inodeToPath,
     inodeToMeta |-> inodeToMeta, nextInode |-> nextInode,
     attrCache |-> attrCache, dirCache |-> dirCache]

ImEffect(eff, c) ==
    CASE eff = "deleteMeta" ->
            [ImTables EXCEPT
                !.inodeToPath = MapDelete(@, pathToInode[c.path]),
                !.inodeToMeta = MapDelete(@, pathToInode[c.path])]
      [] eff = "storeMeta" ->
            [ImTables EXCEPT
                !.nextInode = allocInode(nextInode),
                !.pathToInode = MapPut(@, c.path, allocInode(nextInode)),
                !.inodeToPath = MapPut(@, allocInode(nextInode), c.path),
                !.inodeToMeta = MapPut(@, allocInode(nextInode),
                                       [modTime |-> c.info.modTime,
                                        size |-> c.info.size])]
      [] eff = "clearPaths" ->
            [ImTables EXCEPT !.pathToInode = EmptyMap, !.inodeToPath = EmptyMap]
      [] eff = "clearAttr" -> [ImTables EXCEPT !.attrCache = lruClear(@)]
      [] eff = "clearDir" -> [ImTables EXCEPT !.dirCache = lruClear(@)]
      [] eff = "clearMeta" -> [ImTables EXCEPT !.inodeToMeta = clearMeta(@)]
      [] eff = "Cache" ->
            [ImTables EXCEPT !.attrCache =
                lruPut(@, c.path, [attr |-> "attr", timestamp |-> now], now)]
      [] eff = "InvalidateAttr" ->
            [ImTables EXCEPT !.attrCache = lruDelete(@, c.path)]
      [] eff = "CacheDir" ->
            [ImTables EXCEPT !.dirCache =
                lruPut(@, c.path, [entries |-> "entries", timestamp |-> now], now)]
      [] eff = "InvalidateDir" ->
            [ImTables EXCEPT !.dirCache = lruDelete(@, c.path)]
      [] OTHER -> ImTables

\* a thread runs the next statement of its call
ImStep(t) ==
    /\ imCalls[t].todo # <<>>
    /\ \E st \in {Head(imCalls[t].todo)} :
          /\ CanRun(t, st)
          /\ imMu' = MuAfter(t, st)
          /\ imCalls' = [imCalls EXCEPT ![t] =
                            IF st.eff = "lookup"
                            THEN [imCalls[t] EXCEPT !.todo =
                                     GetInodeRest(imCalls[t].path, imCalls[t].info)]
                            ELSE IF Tail(imCalls[t].todo) = <<>> THEN NoImCall
                            ELSE [imCalls[t] EXCEPT !.todo = Tail(imCalls[t].todo)]]
          /\ \E tb \in {ImEffect(st.eff, imCalls[t])} :
                /\ pathToInode' = tb.pathToInode
                /\ inodeToPath' = tb.inodeToPath
                /\ inodeToMeta' = tb.inodeToMeta
                /\ nextInode' = tb.nextInode
                /\ attrCache' = tb.attrCache
                /\ dirCache' = tb.dirCache
    /\ UNCHANGED <<imCall, imRet, allocated, lastIno, clearedMeta, sameAsCleared>>
    /\ UNCHANGED <<absFS, nodeRet, unmounting, fsCalls>>
    /\ UNCHANGED <<lockVars, handleVars, cacheVars, now, flockCalls, lockedVia,
                   lmCalls>>

NextThreads ==
    \/ \E t \in ImThreads : \E req \in ImRequests(t) : ImCallOp(t, req)
    \/ \E t \in ImThreads : ImStep(t)

\* every thread keeps running, and a thread blocked on a mutex gets it if it
\* is free again and again: sync.RWMutex starves neither readers nor writers,
\* and with one thread reading (Stats is the only reader of pathMu and of the
\* caches' mu) a mutex that is released again and again is free again and
\* again
SpecThreads ==
    /\ Init
    /\ [][NextThreads]_vars
    /\ \A t \in ImThreads : SF_vars(ImStep(t))

\* the mutexes a thread holds
HeldBy(t) == {m \in ImMutexes : t \in imMu[m].w \cup imMu[m].r}

\* path table first, then a cache, then the metadata
MuRank(m) == CASE m = "pathMu" -> 1
               [] m \in {"attrMu", "dirMu"} -> 2
               [] m = "metaMu" -> 3

\* the thread's next statement acquires mutex m
Acquires(t, m) ==
    /\ imCalls[t].todo # <<>>
    /\ Head(imCalls[t].todo).do \in {"Lock", "RLock"}
    /\ Head(imCalls[t].todo).mu = m

InOrder ==
    \A t \in ImThreads, m \in ImMutexes :
        Acquires(t, m) => \A h \in HeldBy(t) : MuRank(h) < MuRank(m)

\* C33: a thread only acquires a mutex that comes later in the order path
\* table, cache, metadata than every mutex it holds, and with the mutexes
\* granted fairly every call returns.
C33_OrderedAndEveryCallReturns ==
    /\ []InOrder
    /\ \A t \in ImThreads : (imCalls[t].todo # <<>>) ~> (imCalls[t].todo = <<>>)

\* a Clear holds pathMu and is about to take metaMu while a GetInode waits
\* for pathMu and a Cache is inside the critical section of the cache
C33_Witness ==
    /\ imCalls[2].op = "Clear"
    /\ Acquires(2, "metaMu")
    /\ HeldBy(2) = {"pathMu"}
    /\ imCalls[1].op = "GetInode"
    /\ Acquires(1, "pathMu")
    /\ imCalls[3].op = "Cache"
    /\ HeldBy(3) = {"attrMu"}
    /\ nextInode = 3

----------------------------------------------------------------------------
(* The identity table against the caches.                                  *)

CacheMutexes == {"attrMu", "dirMu"}

\* the thread cannot run its next statement
Blocked(t) == imCalls[t].todo # <<>> /\ ~CanRun(t, Head(imCalls[t].todo))

\* the thread is kept out of the critical section of a cache by the call
\* that is inside it
WaitsForCache(t) ==
    \E m \in CacheMutexes :
        /\ Acquires(t, m)
        /\ Blocked(t)
        /\ \E u \in ImThreads \ {t} : m \in HeldBy(u)

\* C32: a GetInode never waits on account of a cache's critical section:
\* whenever a GetInode is blocked on pathMu, the thread holding pathMu is
\* not itself waiting for a call that is inside the critical section of a
\* cache.
C32_GetInodeNeverWaitsOnCache ==
    \A t \in ImThreads :
        (imCalls[t].op = "GetInode" /\ Acquires(t, "pathMu") /\ Blocked(t)) =>
            \A h \in ImThreads \ {t} :
                "pathMu" \in HeldBy(h) => ~WaitsForCache(h)

----------------------------------------------------------------------------
(* The adapter under concurrent requests: Open, the operations on an open  *)
(* file, Release and Unmount, each split where it leaves one critical      *)
(* section of the handle tracker or reads FuseFS.unmounting.               *)

ENOTCONN == 107

\* the operations on an open file that start with handleTracker.Get
IoOps == {"Read", "Write", "Flush", "Fsync"}

FsCall(op, pc, fh, file, errno) ==
    [op |-> op, pc |-> pc, fh |-> fh, file |-> file, errno |-> errno]

\* the resources of the Open calls that have not reached Add
BeingOpened == {fsCalls[t].file : t \in {u \in FsThreads : fsCalls[u].pc = "opened"}}

Ready(t) == fsCalls[t].pc = "idle"

\* Open up to the call of Add: checkUnmounting, then absFS.OpenFile, which
\* returns a resource no one else has
NodeOpenCheck(t, file) ==
    /\ Ready(t)
    /\ closes[file] = 0
    /\ file \notin BeingOpened
    /\ \A h \in DOMAIN handles : handles[h].file # file
    /\ nextHandle + Cardinality(BeingOpened) < MaxFiles
    /\ fsCalls' = [fsCalls EXCEPT ![t] =
                      IF unmounting
                      THEN FsCall("Open", "idle", 0, NoFile, ENOTCONN)
                      ELSE FsCall("Open", "opened", 0, file, OK)]
    /\ UNCHANGED <<imMu, imCalls, absFS, nodeRet, unmounting>>
    /\ UNCHANGED <<lockVars, handleVars, cacheVars, inodeVars, now, flockCalls,
                   lockedVia, lmCalls>>

\* Open from handleTracker.Add on
NodeOpenAdd(t) ==
    /\ fsCalls[t].pc = "opened"
    /\ \E fh \in {allocHandle(nextHandle)} :
          /\ nextHandle' = fh
          /\ handles' = MapPut(handles, fh,
                               [file |-> fsCalls[t].file, refCount |-> 1,
                                flags |-> 2, path |-> "x"])
          /\ issued' = issued \cup {fh}
          /\ fsCalls' = [fsCalls EXCEPT ![t] =
                            FsCall("Open", "idle", fh, fsCalls[t].file, OK)]
    /\ UNCHANGED <<closes, htCall, htRet>>
    /\ UNCHANGED <<imMu, imCalls, absFS, nodeRet, unmounting>>
    /\ UNCHANGED <<lockVars, cacheVars, inodeVars, now, flockCalls, lockedVia,
                   lmCalls>>

\* Read, Write, Flush and Fsync up to the return of handleTracker.Get;
\* Fsync, a method of the node, reads unmounting first
FileIoGet(t, op, fh) ==
    /\ Ready(t)
    /\ fsCalls' = [fsCalls EXCEPT ![t] =
                      IF op = "Fsync" /\ unmounting
                      THEN FsCall(op, "idle", fh, NoFile, ENOTCONN)
                      ELSE IF GetResult(handles, fh) = NoFile
                      THEN FsCall(op, "idle", fh, NoFile, EBADF)
                      ELSE FsCall(op, "got", fh, GetResult(handles, fh), OK)]
    /\ UNCHANGED <<imMu, imCalls, absFS, nodeRet, unmounting>>
    /\ UNCHANGED <<lockVars, handleVars, cacheVars, inodeVars, now, flockCalls,
                   lockedVia, lmCalls>>

\* the Seek and Read, the Seek and Write or the Sync on the resource Get
\* returned, which answers ErrClosed once it is closed
FileIoDo(t) ==
    /\ fsCalls[t].pc = "got"
    /\ fsCalls' = [fsCalls EXCEPT ![t].pc = "idle",
                                  ![t].errno = IF closes[fsCalls[t].file] > 0
                                               THEN mapError(Err("ErrClosed"))
                                               ELSE OK]
    /\ UNCHANGED <<imMu, imCalls, absFS, nodeRet, unmounting>>
    /\ UNCHANGED <<lockVars, handleVars, cacheVars, inodeVars, now, flockCalls,
                   lockedVia, lmCalls>>

\* Release up to the return of lockManager.ReleaseOwner(fh.handle)
FileReleaseLocks(t, fh) ==
    /\ Ready(t)
    /\ lmMu = NoHolder
    /\ flocks' = releaseFlocks(flocks, DOMAIN flocks, fh)
    /\ posixLocks' = releasePosix(posixLocks, DOMAIN posixLocks, fh)
    /\ fsCalls' = [fsCalls EXCEPT ![t] = FsCall("Release", "unlocked", fh, NoFile, OK)]
    /\ UNCHANGED <<lmMu, lmRet>>
    /\ UNCHANGED <<imMu, imCalls, absFS, nodeRet, unmounting>>
    /\ UNCHANGED <<handleVars, cacheVars, inodeVars, now, flockCalls, lockedVia,
                   lmCalls>>

\* Release from handleTracker.Release on, err being what Close returns
FileReleaseHandle(t, err) ==
    /\ fsCalls[t].pc = "unlocked"
    /\ \E fh \in {fsCalls[t].fh} :
          IF fh \notin DOMAIN handles
          THEN /\ fsCalls' = [fsCalls EXCEPT ![t] =
                                 FsCall("Release", "idle", fh, NoFile, EBADF)]
               /\ UNCHANGED <<handles, closes>>
          ELSE /\ closes' = [closes EXCEPT ![handles[fh].file] = @ + 1]
               /\ handles' = removeRecord(handles, fh)
               /\ fsCalls' = [fsCalls EXCEPT ![t] =
                                 FsCall("Release", "idle", fh, handles[fh].file,
                                        closeError(err))]
    /\ UNCHANGED <<nextHandle, issued, htCall, htRet>>
    /\ UNCHANGED <<imMu, imCalls, absFS, nodeRet, unmounting>>
    /\ UNCHANGED <<lockVars, cacheVars, inodeVars, now, flockCalls, lockedVia,
                   lmCalls>>

\* Unmount: `f.unmounting.Store(true)`
UnmountStore(t) ==
    /\ Ready(t)
    /\ unmounting' = TRUE
    /\ fsCalls' = [fsCalls EXCEPT ![t] = FsCall("Unmount", "stored", 0, NoFile, OK)]
    /\ UNCHANGED <<imMu, imCalls, absFS, nodeRet>>
    /\ UNCHANGED <<lockVars, handleVars, cacheVars, inodeVars, now, flockCalls,
                   lockedVia, lmCalls>>

\* Unmount: `f.handleTracker.CloseAll()`
UnmountCloseAll(t) ==
    /\ fsCalls[t].pc = "stored"
    /\ closes' = [f \in Files |->
                     IF \E h \in DOMAIN handles : handles[h].file = f
                     THEN closes[f] + 1 ELSE closes[f]]
    /\ handles' = deleteAll(handles)
    /\ fsCalls' = [fsCalls EXCEPT ![t].pc = "closed"]
    /\ UNCHANGED <<nextHandle, issued, htCall, htRet>>
    /\ UNCHANGED <<imMu, imCalls, absFS, nodeRet, unmounting>>
    /\ UNCHANGED <<lockVars, cacheVars, inodeVars, now, flockCalls, lockedVia,
                   lmCalls>>

\* Unmount: `f.inodeManager.Clear()` and the unmount of the server, after
\* which the caller makes no more calls
UnmountClear(t) ==
    /\ fsCalls[t].pc = "closed"
    /\ pathToInode' = EmptyMap
    /\ inodeToPath' = EmptyMap
    /\ attrCache' = lruClear(attrCache)
    /\ dirCache' = lruClear(dirCache)
    /\ inodeToMeta' = clearMeta(inodeToMeta)
    /\ fsCalls' = [fsCalls EXCEPT ![t].pc = "unmounted"]
    /\ UNCHANGED <<nextInode, imCall, imRet, allocated, lastIno, clearedMeta,
                   sameAsCleared>>
    /\ UNCHANGED <<imMu, imCalls, absFS, nodeRet, unmounting>>
    /\ UNCHANGED <<lockVars, handleVars, cacheVars, now, flockCalls, lockedVia,
                   lmCalls>>

NextAdapter ==
    \/ \E t \in FsThreads, f \in OpenFiles : NodeOpenCheck(t, f)
    \/ \E t \in FsThreads : NodeOpenAdd(t)
    \/ \E t \in FsThreads, op \in IoOps, fh \in OpenFiles : FileIoGet(t, op, fh)
    \/ \E t \in FsThreads : FileIoDo(t)
    \/ \E t \in FsThreads, fh \in OpenFiles : FileReleaseLocks(t, fh)
    \/ \E t \in FsThreads, err \in FileCloseErrs : FileReleaseHandle(t, err)
    \/ \E t \in FsThreads : UnmountStore(t)
    \/ \E t \in FsThreads : UnmountCloseAll(t)
    \/ \E t \in FsThreads : UnmountClear(t)

SpecAdapter == Init /\ [][NextAdapter]_vars

\* an Unmount has returned from CloseAll
ClosedAll == \E t \in FsThreads : fsCalls[t].pc \in {"closed", "unmounted"}

\* C34: once Unmount has closed all open file handles the handle table is
\* empty, and every Open that started before is answered ENOTCONN or has
\* its resource closed: no resource is added to the table after CloseAll.
C34_TableEmptyAfterCloseAll ==
    ClosedAll => handles = EmptyMap

\* thread t runs the Seek, Read, Write or Sync of its call in this step
DoesIo(t) == fsCalls[t].pc = "got" /\ fsCalls'[t].pc = "idle"

\* C40: a Read, Write, Flush or Fsync on a handle never operates on the
\* resource after Release or CloseAll has closed it: at the step that does
\* the I/O, the resource handleTracker.Get returned has not been closed.
C40_NoIoAfterClose ==
    [][\A t \in FsThreads : DoesIo(t) => closes[fsCalls[t].file] = 0]_vars

----------------------------------------------------------------------------
(* The node operations of the adapter, one request at a time, over a       *)
(* backing file system with the one directory "/" and the one name "x".    *)

MaxNodeLookups == 3

RootPath == "/"

NodePaths == {"x"}

\* the attributes fillAttr writes from a FileInfo and an inode number
fillAttr(info, ino) == [ino |-> ino, size |-> info.size, modTime |-> info.modTime]

\* what a new or a written file looks like to Stat
CreatedInfo == [modTime |-> 10, size |-> 0]
WrittenInfo == [modTime |-> 20, size |-> 7]

NodeRet(op, path, errno, attr, cached) ==
    [op |-> op, path |-> path, errno |-> errno, attr |-> attr, cached |-> cached]

\* InodeManager.GetInode as a function of the tables
GetInodeResult(path, info) ==
    IF path \in DOMAIN pathToInode
       /\ isSameFile(inodeToMeta, pathToInode[path], info)
    THEN [ino |-> pathToInode[path], pathToInode |-> pathToInode,
          inodeToPath |-> inodeToPath, inodeToMeta |-> inodeToMeta,
          nextInode |-> nextInode]
    ELSE LET changed == path \in DOMAIN pathToInode
             paths == IF changed
                      THEN MapDelete(inodeToPath, pathToInode[path])
                      ELSE inodeToPath
             metas == IF changed
                      THEN MapDelete(inodeToMeta, pathToInode[path])
                      ELSE inodeToMeta
             ino == allocInode(nextInode)
         IN  [ino |-> ino, pathToInode |-> MapPut(pathToInode, path, ino),
              inodeToPath |-> MapPut(paths, ino, path),
              inodeToMeta |-> MapPut(metas, ino,
                                     [modTime |-> info.modTime, size |-> info.size]),
              nextInode |-> ino]

SetIdentity(g) ==
    /\ g.nextInode <= MaxInode
    /\ pathToInode' = g.pathToInode
    /\ inodeToPath' = g.inodeToPath
    /\ inodeToMeta' = g.inodeToMeta
    /\ nextInode' = g.nextInode

Lookups == attrCache.hits + attrCache.misses + dirCache.hits + dirCache.misses

\* Getattr on the node of path over the backing file system fsNow: the
\* attribute cache first, then Stat, GetInode, fillAttr and Cache
GetattrOn(op, path, fsNow) ==
    /\ Lookups < MaxNodeLookups
    /\ \E r \in {lruGet(attrCache, path, now)} :
          IF r.ok
          THEN /\ nodeRet' = NodeRet(op, path, OK, r.value.attr, TRUE)
               /\ attrCache' = r.cache
               /\ UNCHANGED <<pathToInode, inodeToPath, inodeToMeta, nextInode>>
          ELSE IF path \notin DOMAIN fsNow
          THEN /\ nodeRet' = NodeRet(op, path, mapError(Err("ErrNotExist")),
                                     NoValue, FALSE)
               /\ attrCache' = r.cache
               /\ UNCHANGED <<pathToInode, inodeToPath, inodeToMeta, nextInode>>
          ELSE \E g \in {GetInodeResult(path, fsNow[path])} :
                  /\ SetIdentity(g)
                  /\ nodeRet' = NodeRet(op, path, OK, fillAttr(fsNow[path], g.ino),
                                        FALSE)
                  /\ attrCache' = lruPut(r.cache, path,
                                         [attr |-> fillAttr(fsNow[path], g.ino),
                                          timestamp |-> now], now)

NodeFrame ==
    /\ UNCHANGED <<imCall, imRet, allocated, lastIno, clearedMeta, sameAsCleared>>
    /\ UNCHANGED <<imMu, imCalls, unmounting, fsCalls>>
    /\ UNCHANGED <<lockVars, cacheVars, now, flockCalls, lockedVia, lmCalls>>

NodeGetattr(path) ==
    /\ GetattrOn("Getattr", path, absFS)
    /\ UNCHANGED <<absFS, dirCache, handleVars>>
    /\ NodeFrame

\* Setattr through the handle fh (0 for none) with the size sz, or with the
\* modification time mt when sz is -1; it ends in Getattr
NodeSetattr(path, fh, sz, mt) ==
    /\ fh # 0 => fh \in DOMAIN handles /\ handles[fh].path = path
    /\ \E fsNow \in {IF path \notin DOMAIN absFS THEN absFS
                     ELSE IF sz >= 0
                     THEN IF fh # 0
                          THEN [absFS EXCEPT ![path] = [modTime |-> 20, size |-> sz]]
                          ELSE absFS
                     ELSE [absFS EXCEPT ![path].modTime = mt]} :
          /\ absFS' = fsNow
          /\ GetattrOn("Setattr", path, fsNow)
    /\ UNCHANGED <<dirCache, handleVars>>
    /\ NodeFrame

\* Write on the handle fh: Get, Seek and Write on the file
FileWrite(fh) ==
    /\ IF fh \notin DOMAIN handles
       THEN /\ nodeRet' = NodeRet("Write", NoKey, EBADF, NoValue, FALSE)
            /\ UNCHANGED absFS
       ELSE /\ nodeRet' = NodeRet("Write", handles[fh].path, OK, NoValue, FALSE)
            /\ absFS' = IF handles[fh].path \in DOMAIN absFS
                        THEN [absFS EXCEPT ![handles[fh].path] = WrittenInfo]
                        ELSE absFS
    /\ UNCHANGED <<pathToInode, inodeToPath, inodeToMeta, nextInode, attrCache,
                   dirCache, handleVars>>
    /\ NodeFrame

\* Create of name under the root: OpenFile with O_CREATE, InvalidateDir of
\* the parent, Stat, GetInode, fillAttr and handleTracker.Add
NodeCreate(name, file) ==
    /\ closes[file] = 0
    /\ \A h \in DOMAIN handles : handles[h].file # file
    /\ nextHandle < MaxFiles
    /\ \E fsNow \in {IF name \in DOMAIN absFS THEN absFS
                     ELSE MapPut(absFS, name, CreatedInfo)} :
          /\ absFS' = fsNow
          /\ dirCache' = lruDelete(dirCache, RootPath)
          /\ \E g \in {GetInodeResult(name, fsNow[name])} :
                /\ SetIdentity(g)
                /\ nodeRet' = NodeRet("Create", name, OK,
                                      fillAttr(fsNow[name], g.ino), FALSE)
    /\ nextHandle' = allocHandle(nextHandle)
    /\ handles' = MapPut(handles, allocHandle(nextHandle),
                         [file |-> file, refCount |-> 1, flags |-> 2,
                          path |-> name])
    /\ issued' = issued \cup {allocHandle(nextHandle)}
    /\ UNCHANGED <<attrCache, closes, htCall, htRet>>
    /\ NodeFrame

\* Unlink of name under the root: Remove and InvalidateDir of the parent
NodeUnlink(name) ==
    /\ IF name \notin DOMAIN absFS
       THEN /\ nodeRet' = NodeRet("Unlink", name, mapError(Err("ErrNotExist")),
                                  NoValue, FALSE)
            /\ UNCHANGED <<absFS, dirCache>>
       ELSE /\ nodeRet' = NodeRet("Unlink", name, OK, NoValue, FALSE)
            /\ absFS' = MapDelete(absFS, name)
            /\ dirCache' = lruDelete(dirCache, RootPath)
    /\ UNCHANGED <<pathToInode, inodeToPath, inodeToMeta, nextInode, attrCache,
                   handleVars>>
    /\ NodeFrame

\* Readdir of the root: the directory cache first, then the names of the
\* directory with the inode GetInode gives each, and CacheDir
NodeReaddir ==
    /\ Lookups < MaxNodeLookups
    /\ \E r \in {lruGet(dirCache, RootPath, now)} :
          IF r.ok
          THEN /\ nodeRet' = NodeRet("Readdir", RootPath, OK, r.value.entries, TRUE)
               /\ dirCache' = r.cache
               /\ UNCHANGED <<pathToInode, inodeToPath, inodeToMeta, nextInode>>
          ELSE \E g \in {IF "x" \in DOMAIN absFS
                         THEN GetInodeResult("x", absFS["x"])
                         ELSE [ino |-> NoInode, pathToInode |-> pathToInode,
                               inodeToPath |-> inodeToPath,
                               inodeToMeta |-> inodeToMeta,
                               nextInode |-> nextInode]} :
                  \E entries \in {{[name |-> p, ino |-> g.ino] :
                                     p \in DOMAIN absFS}} :
                     /\ SetIdentity(g)
                     /\ nodeRet' = NodeRet("Readdir", RootPath, OK, entries, FALSE)
                     /\ dirCache' = lruPut(r.cache, RootPath,
                                           [entries |-> entries, timestamp |-> now],
                                           now)
    /\ UNCHANGED <<absFS, attrCache, handleVars>>
    /\ NodeFrame

NextNode ==
    \/ \E p \in NodePaths : NodeGetattr(p)
    \/ \E p \in NodePaths, fh \in {0} \cup OpenFiles, sz \in Sizes \cup {-1},
          mt \in ModTimes : NodeSetattr(p, fh, sz, mt)
    \/ \E fh \in OpenFiles : FileWrite(fh)
    \/ \E p \in NodePaths, f \in OpenFiles : NodeCreate(p, f)
    \/ \E p \in NodePaths : NodeUnlink(p)
    \/ NodeReaddir

SpecNode == Init /\ [][NextNode]_vars

\* C31: after a mutating operation on a path succeeded, no later Getattr
\* (the one that ends Setattr included) is answered from an attribute cache
\* entry stored before the mutation: a reply that comes from the cache
\* carries the size and the modification time the file has now.
C31_NoStaleAttrReply ==
    (nodeRet.op \in {"Getattr", "Setattr"} /\ nodeRet.errno = OK /\ nodeRet.cached)
        => /\ nodeRet.path \in DOMAIN absFS
           /\ nodeRet.attr.size = absFS[nodeRet.path].size
           /\ nodeRet.attr.modTime = absFS[nodeRet.path].modTime

=============================================================================
